---------------------------- MODULE Spec2Model ----------------------------
(***************************************************************************)
(* A model of lipimerge: the validation, merge, column sort and round-trip *)
(* verification of LipidQuant sheets (src/src/lipimerge).                  *)
(*                                                                         *)
(* A worksheet is a dense grid: a sequence of rows, each a sequence of     *)
(* max_column cell values.  A cell value is None, a string or a number.    *)
(* Cells that openpyxl does not hold read as None, and max_row and         *)
(* max_column are the largest row and column that hold a cell, so the grid *)
(* of Len(sheet) rows and Len(sheet[1]) columns carries the same content.  *)
(***************************************************************************)
EXTENDS Integers, Sequences, FiniteSets, TLC

VARIABLES
    store,            \* the input files on disk: file name -> workbook
    input_files,      \* process(input_files, ...): the list of file names
    output_exists,    \* whether the output path exists when process starts
    ignore_blanks,    \* the flag threaded through every stage
    trim_class_names, \* the flag of process and clear_found_values
    pc,               \* the position of process
    fi,               \* the index of the input file a loop of process is at
    inconsistencies,  \* the list of findings of validate_input
    ctx,              \* the cross-workbook context of validate_input
    result,           \* the output workbook being built
    saved,            \* the workbook persisted at the output path
    out,              \* the output workbook as reloaded for verification
    raised,           \* the exception process ended with, or "none"
    destination,      \* the destination sheet of a sequence of merge calls
    merged,           \* the source sheets merged so far, in merge order
    validated,        \* the input files validate_input has run on
    container,        \* the list of keys handed to the sort functions
    array,            \* the list of keys as it was before sorting
    next_begin,       \* the `begin` of the next selection_sort_step
    swaps,            \* the calls of column_swap made: [i, j, sheet before]
    order,            \* the strict order `less` compares the keys by
    calls,            \* the calls of quick_sort to be made: [first, end]
    scan              \* partition3 in progress: its range and lt, i, gt

vars == <<store, input_files, output_exists, ignore_blanks, trim_class_names,
          pc, fi, inconsistencies, ctx, result, saved, out, raised,
          destination, merged, validated, container, array, next_begin, swaps,
          order, calls, scan>>

---------------------------------------------------------------------------
(* Cell values *)

None == [t |-> "none"]
Str(s) == [t |-> "str", s |-> s]
Num(n) == [t |-> "num", n |-> n]

IsStr(v) == v.t = "str"
IsNum(v) == v.t = "num"

---------------------------------------------------------------------------
(* Worksheets (the openpyxl collaborator) *)

\* A sheet without any cell: max_row = max_column = 1 and A1 reads None.
Degenerate == << <<None>> >>

max_row(sheet) == Len(sheet)
max_column(sheet) == Len(sheet[1])

\* sheet.cell(r, c).value of a cell inside the grid
Cell(sheet, r, c) == sheet[r][c]

\* The grid widened to at least rows r and columns c with None cells.
Grow(sheet, r, c) ==
    LET nr == IF r > max_row(sheet) THEN r ELSE max_row(sheet)
        nc == IF c > max_column(sheet) THEN c ELSE max_column(sheet)
    IN  [i \in 1..nr |-> [j \in 1..nc |->
            IF i <= max_row(sheet) /\ j <= max_column(sheet)
            THEN sheet[i][j] ELSE None]]

\* sheet.cell(r, c, value): the cell is created; a None value is not written.
SetCell(sheet, r, c, value) ==
    LET g == Grow(sheet, r, c)
    IN  IF value = None THEN g ELSE [g EXCEPT ![r][c] = value]

\* sheet.cell(r, c).value = value: the assignment writes None as well.
AssignCell(sheet, r, c, value) ==
    [Grow(sheet, r, c) EXCEPT ![r][c] = value]

\* sheet.append(values): a new row below the last one (see merge for the
\* sheets on which the last row is max_row).
AppendRow(sheet, values) ==
    LET r == max_row(sheet) + 1
        g == Grow(sheet, r, IF Len(values) = 0 THEN 1 ELSE Len(values))
    IN  [g EXCEPT ![r] = [j \in 1..max_column(g) |->
            IF j <= Len(values) THEN values[j] ELSE None]]

get_class_names(sheet) == sheet[1]

get_record_names(sheet) == [r \in 1..max_row(sheet) |-> sheet[r][1]]

---------------------------------------------------------------------------
(* String helpers of utils.py *)

Uppercase == "ABCDEFGHIJKLMNOPQRSTUVWXYZ"
Lowercase == "abcdefghijklmnopqrstuvwxyz"

LowerOf ==
    [c \in {SubSeq(Uppercase, k, k) : k \in 1..Len(Uppercase)} |->
        LET k == CHOOSE m \in 1..Len(Uppercase) : SubSeq(Uppercase, m, m) = c
        IN  SubSeq(Lowercase, k, k)]

Lower(c) == IF c \in DOMAIN LowerOf THEN LowerOf[c] ELSE c

\* str.casefold() on ASCII text
RECURSIVE casefold(_)
casefold(s) ==
    IF Len(s) = 0 THEN s
    ELSE Lower(SubSeq(s, 1, 1)) \o casefold(SubSeq(s, 2, Len(s)))

\* sub in s
Contains(s, sub) ==
    \E k \in 1..(Len(s) - Len(sub) + 1) : SubSeq(s, k, k + Len(sub) - 1) = sub

\* A blank test on the text as written, without casefold
is_blank_contains_cased(record) ==
    IF record = None THEN FALSE ELSE Contains(record.s, "blank")

is_blank(record) ==
    IF record = None THEN FALSE ELSE Contains(casefold(record.s), "blank")

---------------------------------------------------------------------------
(* xutils.validate_input *)

InputInconsistency(message, workbook, sheet, row, col) ==
    [message |-> message, workbook |-> workbook, sheet |-> sheet,
     row |-> row, col |-> col]

MsgA1 == "Non-empty cell A1 (skipping the rest of the sheet)"
MsgDupClass(cls) == "Duplicate class '" \o cls.s \o "' within one data sheet."
MsgDupRecord(rec) == "Duplicate record '" \o rec.s \o "' within one data sheet."
MsgBlank == "Non-empty cell in a blank."
MsgEmptyClass == "Non-empty cell in a column with an empty class name."
MsgEmptyRecord == "Non-empty cell in a row with an empty record."
MsgAcross(cls, record) ==
    "Duplicate class '" \o cls.s \o "' and record '" \o record.s
        \o "' within one data sheet across workbooks."

\* An inner loop that reports the repeats only, not the first occurrence
RECURSIVE DupInnerRepeatsOnly(_, _, _, _, _, _, _, _)
DupInnerRepeatsOnly(names, i, j, acc, name, title, msg, byRow) ==
    IF j > Len(names) THEN acc
    ELSE IF names[j] = names[i]
    THEN DupInnerRepeatsOnly(names, i, j + 1,
             [result |-> Append(acc.result,
                            InputInconsistency(msg, name, title,
                                IF byRow THEN j ELSE 1,
                                IF byRow THEN 1 ELSE j)),
              already_found |-> acc.already_found \cup {names[i]}],
             name, title, msg, byRow)
    ELSE DupInnerRepeatsOnly(names, i, j + 1, acc, name, title, msg, byRow)

\* The inner loop `for j in range(i+1, len(names))` of the two duplicate
\* checks, at 1-based positions: acc = [result, already_found].
RECURSIVE DupInner(_, _, _, _, _, _, _, _)
DupInner(names, i, j, acc, name, title, msg, byRow) ==
    IF j > Len(names) THEN acc
    ELSE IF names[j] = names[i]
    THEN LET first == IF names[i] \in acc.already_found THEN <<>>
                      ELSE << InputInconsistency(msg, name, title,
                                  IF byRow THEN i ELSE 1,
                                  IF byRow THEN 1 ELSE i) >>
             this == InputInconsistency(msg, name, title,
                                  IF byRow THEN j ELSE 1,
                                  IF byRow THEN 1 ELSE j)
         IN  DupInner(names, i, j + 1,
                 [result |-> acc.result \o first \o <<this>>,
                  already_found |-> acc.already_found \cup {names[i]}],
                 name, title, msg, byRow)
    ELSE DupInner(names, i, j + 1, acc, name, title, msg, byRow)

\* `for i, cls in enumerate(cls_names)`: no duplicate classes
RECURSIVE DupClasses(_, _, _, _, _)
DupClasses(cls_names, i, acc, name, title) ==
    IF i > Len(cls_names) THEN acc.result
    ELSE IF cls_names[i] = None \/ cls_names[i] \in acc.already_found
    THEN DupClasses(cls_names, i + 1, acc, name, title)
    ELSE DupClasses(cls_names, i + 1,
             DupInner(cls_names, i, i + 1, acc, name, title,
                      MsgDupClass(cls_names[i]), FALSE),
             name, title)

\* `for i, rec in enumerate(rec_names)`: no duplicate records
RECURSIVE DupRecords(_, _, _, _, _, _)
DupRecords(rec_names, i, acc, name, title, ignore) ==
    IF i > Len(rec_names) THEN acc.result
    ELSE IF \/ rec_names[i] = None
            \/ rec_names[i] \in acc.already_found
            \/ (ignore /\ is_blank(rec_names[i]))
    THEN DupRecords(rec_names, i + 1, acc, name, title, ignore)
    ELSE DupRecords(rec_names, i + 1,
             DupInner(rec_names, i, i + 1, acc, name, title,
                      MsgDupRecord(rec_names[i]), TRUE),
             name, title, ignore)

\* The columns the blank check visits: range(2, sheet.max_column).
BlankCheckColumns(sheet) == 2..(max_column(sheet) - 1)

\* A finding at every non-empty cell among the cells (row by row, or column
\* by column) selected by keep, in the order of the loops.
RECURSIVE CellFindings(_, _, _, _, _, _, _)
CellFindings(sheet, cells, k, res, name, title, msg) ==
    IF k > Len(cells) THEN res
    ELSE CellFindings(sheet, cells, k + 1,
             IF Cell(sheet, cells[k][1], cells[k][2]) # None
             THEN Append(res, InputInconsistency(msg, name, title,
                                                 cells[k][1], cells[k][2]))
             ELSE res,
             name, title, msg)

\* The pairs <<a, b>>, a in as and b in bs (both ascending), a-major.
RECURSIVE Pairs(_, _, _, _)
Pairs(lo1, hi1, lo2, hi2) ==
    IF lo1 > hi1 THEN <<>>
    ELSE [k \in 1..(IF hi2 >= lo2 THEN hi2 - lo2 + 1 ELSE 0) |->
              <<lo1, lo2 + k - 1>>]
         \o Pairs(lo1 + 1, hi1, lo2, hi2)

Swap2(p) == [k \in 1..Len(p) |-> <<p[k][2], p[k][1]>>]

\* `for icol in range(2, sheet.max_column)` of the blank check
RECURSIVE BlankCells(_, _, _, _, _, _)
BlankCells(sheet, irow, icol, res, name, title) ==
    IF icol \notin BlankCheckColumns(sheet) THEN res
    ELSE BlankCells(sheet, irow, icol + 1,
             IF Cell(sheet, irow, icol) # None
             THEN Append(res, InputInconsistency(MsgBlank, name, title,
                                                 irow, icol))
             ELSE res,
             name, title)

\* `for i, rec in enumerate(rec_names)`: all blanks have no values
RECURSIVE BlankRows(_, _, _, _, _, _)
BlankRows(sheet, rec_names, irow, res, name, title) ==
    IF irow > Len(rec_names) THEN res
    ELSE BlankRows(sheet, rec_names, irow + 1,
             IF is_blank(rec_names[irow])
             THEN BlankCells(sheet, irow, 2, res, name, title)
             ELSE res,
             name, title)

\* validate_sheet: A1, duplicate classes, duplicate records, blanks
validate_sheet(sheet, name, title, ignore, res) ==
    IF Cell(sheet, 1, 1) # None
    THEN Append(res, InputInconsistency(MsgA1, name, title, 1, 1))
    ELSE
    LET cls_names == get_class_names(sheet)
        rec_names == get_record_names(sheet)
        r1 == DupClasses(cls_names, 1,
                  [result |-> res, already_found |-> {}], name, title)
        r2 == DupRecords(rec_names, 1,
                  [result |-> r1, already_found |-> {}], name, title, ignore)
    IN  IF ignore THEN r2
        ELSE BlankRows(sheet, rec_names, 1, r2, name, title)

validate_empty_cells(sheet, name, title, res) ==
    LET NoClass(p) == Cell(sheet, 1, p[2]) = None
        NoRecord(p) == Cell(sheet, p[1], 1) = None
        byCol == Swap2(Pairs(2, max_column(sheet), 2, max_row(sheet)))
        byRow == Pairs(2, max_row(sheet), 2, max_column(sheet))
        r1 == CellFindings(sheet, SelectSeq(byCol, NoClass), 1, res,
                           name, title, MsgEmptyClass)
    IN  CellFindings(sheet, SelectSeq(byRow, NoRecord), 1, r1,
                     name, title, MsgEmptyRecord)

\* An inner loop that keeps the latest origin of a combination in the
\* context instead of the first
RECURSIVE AcrossClassesLatest(_, _, _, _, _, _)
AcrossClassesLatest(sheet, i, j, acc, name, title) ==
    IF j > max_column(sheet) THEN acc
    ELSE
    LET record == Cell(sheet, i, 1)
        cls == Cell(sheet, 1, j)
        key == <<title, record, cls>>
        here == (key :> <<name, i, j>>)
    IN  IF cls = None
        THEN AcrossClassesLatest(sheet, i, j + 1, acc, name, title)
        ELSE IF key \notin DOMAIN acc.context
        THEN AcrossClassesLatest(sheet, i, j + 1,
                 [result |-> acc.result, context |-> acc.context @@ here],
                 name, title)
        ELSE IF acc.context[key][1] = name
        THEN AcrossClassesLatest(sheet, i, j + 1, acc, name, title)
        ELSE AcrossClassesLatest(sheet, i, j + 1,
                 [result |-> acc.result \o
                     << InputInconsistency(MsgAcross(cls, record),
                            acc.context[key][1], title,
                            acc.context[key][2], acc.context[key][3]),
                        InputInconsistency(MsgAcross(cls, record),
                            name, title, i, j) >>,
                  context |-> here @@ acc.context],
                 name, title)

\* `for j, cls in enumerate(get_class_names(sheet))` at the 1-based
\* position j of the record at row i: acc = [result, context]
RECURSIVE AcrossClasses(_, _, _, _, _, _)
AcrossClasses(sheet, i, j, acc, name, title) ==
    IF j > max_column(sheet) THEN acc
    ELSE
    LET record == Cell(sheet, i, 1)
        cls == Cell(sheet, 1, j)
        key == <<title, record, cls>>
    IN  IF cls = None
        THEN AcrossClasses(sheet, i, j + 1, acc, name, title)
        ELSE IF key \notin DOMAIN acc.context
        THEN AcrossClasses(sheet, i, j + 1,
                 [result |-> acc.result,
                  context |-> acc.context @@ (key :> <<name, i, j>>)],
                 name, title)
        ELSE IF acc.context[key][1] = name
        THEN AcrossClasses(sheet, i, j + 1, acc, name, title)
        ELSE AcrossClasses(sheet, i, j + 1,
                 [result |-> acc.result \o
                     << InputInconsistency(MsgAcross(cls, record),
                            acc.context[key][1], title,
                            acc.context[key][2], acc.context[key][3]),
                        InputInconsistency(MsgAcross(cls, record),
                            name, title, i, j) >>,
                  context |-> acc.context],
                 name, title)

\* `for i, record in enumerate(get_record_names(sheet))`
RECURSIVE AcrossRecords(_, _, _, _, _, _)
AcrossRecords(sheet, i, acc, name, title, ignore) ==
    IF i > max_row(sheet) THEN acc
    ELSE IF \/ Cell(sheet, i, 1) = None
            \/ (ignore /\ is_blank(Cell(sheet, i, 1)))
    THEN AcrossRecords(sheet, i + 1, acc, name, title, ignore)
    ELSE AcrossRecords(sheet, i + 1,
             AcrossClasses(sheet, i, 1, acc, name, title),
             name, title, ignore)

validate_duplicates_across_workbooks(sheet, name, title, ignore, acc) ==
    AcrossRecords(sheet, 1, acc, name, title, ignore)

\* The body of `for sheet in workbook.worksheets`
ValidateOneSheet(ws, name, ignore, acc) ==
    LET r1 == validate_sheet(ws.sheet, name, ws.title, ignore, acc.result)
        r2 == validate_empty_cells(ws.sheet, name, ws.title, r1)
    IN  validate_duplicates_across_workbooks(ws.sheet, name, ws.title, ignore,
            [result |-> r2, context |-> acc.context])

\* validate_input(workbook, name, ignore_blanks, result, context): the pair
\* of the extended result and context.  A workbook is the sequence of its
\* worksheets [title, sheet].
RECURSIVE ValidateSheets(_, _, _, _, _)
ValidateSheets(workbook, k, name, ignore, acc) ==
    IF k > Len(workbook) THEN acc
    ELSE ValidateSheets(workbook, k + 1, name, ignore,
             ValidateOneSheet(workbook[k], name, ignore, acc))

validate_input(workbook, name, ignore, res, context) ==
    ValidateSheets(workbook, 1, name, ignore,
                   [result |-> res, context |-> context])

---------------------------------------------------------------------------
(* xutils.merge *)

\* list.index(value) + 1: the 1-based position of the first element equal
\* to value, 0 when list.index raises ValueError.
Index(list, value) ==
    IF \E k \in 1..Len(list) : list[k] = value
    THEN CHOOSE k \in 1..Len(list) :
             list[k] = value /\ \A m \in 1..(k - 1) : list[m] # value
    ELSE 0

\* A mapper without the lookup: every source class gets a new column.
RECURSIVE MergeMapperAppending(_, _, _, _)
MergeMapperAppending(dst_classes, src_classes, k, acc) ==
    IF k > Len(src_classes) THEN acc
    ELSE LET grown == SetCell(acc.destination, 1,
                              max_column(acc.destination) + 1, src_classes[k])
         IN  MergeMapperAppending(dst_classes, src_classes, k + 1,
                 [destination |-> grown,
                  src_dst_map |-> Append(acc.src_dst_map, max_column(grown))])

\* mapper(destination, dst_classes, value) for every value of src_classes:
\* acc = [destination, src_dst_map].  dst_classes is the list read before the
\* first call; a class it lacks gets a new destination column.
RECURSIVE MergeMapper(_, _, _, _)
MergeMapper(dst_classes, src_classes, k, acc) ==
    IF k > Len(src_classes) THEN acc
    ELSE LET at == Index(dst_classes, src_classes[k])
             grown == SetCell(acc.destination, 1,
                              max_column(acc.destination) + 1, src_classes[k])
         IN  MergeMapper(dst_classes, src_classes, k + 1,
                 IF at # 0
                 THEN [acc EXCEPT !.src_dst_map = Append(@, at)]
                 ELSE [destination |-> grown,
                       src_dst_map |-> Append(acc.src_dst_map,
                                              max_column(grown))])

\* A copy that keeps the source's column positions instead of src_dst_map.
RECURSIVE MergeRowCellsUnmapped(_, _, _, _, _)
MergeRowCellsUnmapped(dest, irow, row, src_dst_map, icol) ==
    IF icol > Len(src_dst_map) THEN dest
    ELSE MergeRowCellsUnmapped(SetCell(dest, irow, icol, row[icol]),
                               irow, row, src_dst_map, icol + 1)

\* `for icol in range(1, len(src_dst_map))`: the cells of one source row
RECURSIVE MergeRowCells(_, _, _, _, _)
MergeRowCells(dest, irow, row, src_dst_map, icol) ==
    IF icol > Len(src_dst_map) THEN dest
    ELSE MergeRowCells(SetCell(dest, irow, src_dst_map[icol], row[icol]),
                       irow, row, src_dst_map, icol + 1)

\* A row loop without the lookup: every source record gets a new row.
RECURSIVE MergeRowsAppending(_, _, _, _, _, _)
MergeRowsAppending(dest, source, r, dst_records, src_dst_map, ignore) ==
    IF r > max_row(source) THEN dest
    ELSE LET row == source[r]
             d1 == AppendRow(dest, <<row[1]>>)
         IN  IF row[1] = None \/ (ignore /\ is_blank(row[1]))
             THEN MergeRowsAppending(dest, source, r + 1, dst_records,
                                     src_dst_map, ignore)
             ELSE MergeRowsAppending(
                      MergeRowCells(d1, max_row(d1), row, src_dst_map, 2),
                      source, r + 1, dst_records, src_dst_map, ignore)

\* `for row in source.iter_rows(2, values_only=True)`.  dst_records is the
\* list read at the start of merge.
RECURSIVE MergeRows(_, _, _, _, _, _)
MergeRows(dest, source, r, dst_records, src_dst_map, ignore) ==
    IF r > max_row(source) THEN dest
    ELSE LET row == source[r]
             at == Index(dst_records, row[1])
             d1 == IF at # 0 THEN dest ELSE AppendRow(dest, <<row[1]>>)
             irow == IF at # 0 THEN at ELSE max_row(d1)
         IN  IF row[1] = None \/ (ignore /\ is_blank(row[1]))
             THEN MergeRows(dest, source, r + 1, dst_records, src_dst_map,
                            ignore)
             ELSE MergeRows(MergeRowCells(d1, irow, row, src_dst_map, 2),
                            source, r + 1, dst_records, src_dst_map, ignore)

\* merge(destination, source, ignore_blanks): the destination afterwards.
\* get_class_names(destination) creates cell A1 of a sheet that holds no
\* cell yet, so append always adds the row below max_row.
merge(dest, source, ignore) ==
    LET dst_classes == get_class_names(dest)
        src_classes == get_class_names(source)
        dst_records == get_record_names(dest)
        m == MergeMapper(dst_classes, src_classes, 1,
                         [destination |-> dest, src_dst_map |-> <<>>])
    IN  MergeRows(m.destination, source, 2, dst_records, m.src_dst_map,
                  ignore)

---------------------------------------------------------------------------
(* Column order: xutils.column_less, xutils.column_swap and              *)
(* utils.selection_sort_step                                              *)

\* The characters in the order of their code points.
Alphabet ==
    " !'()-.0123456789:?ABCDEFGHIJKLMNOPQRSTUVWXYZ[]_abcdefghijklmnopqrstuvwxyz"

Ord(c) == CHOOSE k \in 1..Len(Alphabet) : SubSeq(Alphabet, k, k) = c

\* a < b on str: lexicographic by code point
RECURSIVE StrLess(_, _)
StrLess(a, b) ==
    IF Len(b) = 0 THEN FALSE
    ELSE IF Len(a) = 0 THEN TRUE
    ELSE IF SubSeq(a, 1, 1) # SubSeq(b, 1, 1)
    THEN Ord(SubSeq(a, 1, 1)) < Ord(SubSeq(b, 1, 1))
    ELSE StrLess(SubSeq(a, 2, Len(a)), SubSeq(b, 2, Len(b)))

\* column_less(sheet, lhs, rhs) on a sheet whose class names are strings
column_less(sheet, lhs, rhs) ==
    StrLess(Cell(sheet, 1, lhs).s, Cell(sheet, 1, rhs).s)

\* The first test of column_swap: an empty sheet and i, j > 0
SwapIsNoOp(sheet, i, j) ==
    /\ i > 0 /\ j > 0
    /\ max_column(sheet) = 1 /\ max_row(sheet) = 1
    /\ Cell(sheet, 1, 1) = None

\* Variant without the test for the empty sheet
ColumnSwapRaisesOnEmpty(sheet, i, j) ==
    IF i < 1 \/ j < 1 THEN "InvalidCellIndex"
    ELSE IF i > max_column(sheet) \/ j > max_column(sheet)
    THEN "InvalidCellIndex"
    ELSE "none"

\* The exception column_swap(sheet, i, j) raises, or "none"
column_swap_raises(sheet, i, j) ==
    IF SwapIsNoOp(sheet, i, j) THEN "none"
    ELSE IF i < 1 \/ j < 1 THEN "InvalidCellIndex"
    ELSE IF i > max_column(sheet) \/ j > max_column(sheet)
    THEN "InvalidCellIndex"
    ELSE "none"

\* Variant that exchanges the class names only
ColumnSwapLabelsOnly(sheet, i, j) ==
    IF SwapIsNoOp(sheet, i, j) \/ i = j THEN sheet
    ELSE [sheet EXCEPT ![1] = [c \in 1..max_column(sheet) |->
             IF c = i THEN sheet[1][j] ELSE IF c = j THEN sheet[1][i]
             ELSE sheet[1][c]]]

\* The sheet after column_swap(sheet, i, j) when it does not raise
column_swap(sheet, i, j) ==
    IF SwapIsNoOp(sheet, i, j) \/ i = j THEN sheet
    ELSE [r \in 1..max_row(sheet) |-> [c \in 1..max_column(sheet) |->
             IF c = i THEN sheet[r][j] ELSE IF c = j THEN sheet[r][i]
             ELSE sheet[r][c]]]

\* find_min of selection_sort_step: `for i in range(begin+1, end)`
RECURSIVE find_min(_, _, _, _)
find_min(sheet, i, end, res) ==
    IF i >= end THEN res
    ELSE find_min(sheet, i + 1, end,
                  IF column_less(sheet, i, res) THEN i ELSE res)

selection_sort_step(sheet, end, begin) ==
    column_swap(sheet, begin, find_min(sheet, begin + 1, end, begin))

\* process: `for i in range(2, sheet.max_column)` with end=sheet.max_column
RECURSIVE SortColumns(_, _)
SortColumns(sheet, i) ==
    IF i >= max_column(sheet) THEN sheet
    ELSE SortColumns(selection_sort_step(sheet, max_column(sheet), i), i + 1)

---------------------------------------------------------------------------
(* xutils.clear_found_values and xutils.has_empty_data_set *)

\* rel_tol and abs_tol of isclose.  A number Num(n) stands for n * 1e-13,
\* so abs_tol = 1e-12 is AbsTol units and rel_tol divides by 10^12.
AbsTol == 10
RelTolRoot == 1000000

Abs(n) == IF n < 0 THEN -n ELSE n
Max(a, b) == IF a > b THEN a ELSE b

\* math.isclose(a, b, rel_tol=1e-12, abs_tol=1e-12) on numbers
isclose(a, b) ==
    Abs(a - b) <= Max((Max(Abs(a), Abs(b)) \div RelTolRoot) \div RelTolRoot,
                      AbsTol)

\* value.strip()
RECURSIVE lstrip(_)
lstrip(s) ==
    IF Len(s) > 0 /\ SubSeq(s, 1, 1) = " " THEN lstrip(SubSeq(s, 2, Len(s)))
    ELSE s

RECURSIVE rstrip(_)
rstrip(s) ==
    IF Len(s) > 0 /\ SubSeq(s, Len(s), Len(s)) = " "
    THEN rstrip(SubSeq(s, 1, Len(s) - 1))
    ELSE s

strip(s) == rstrip(lstrip(s))

trim_class_name(value) == IF value = None THEN value ELSE Str(strip(value.s))

\* [mapper(dst_items, value) for value in src_items]: the list of 1-based
\* positions, or <<0>> in place of the Exception raised for a value that
\* dst_items lacks.
Mapped(dst_items, src_items) ==
    IF \E k \in 1..Len(src_items) : Index(dst_items, src_items[k]) = 0
    THEN <<0>>
    ELSE [k \in 1..Len(src_items) |-> Index(dst_items, src_items[k])]

\* The loops over the source cells p = <<src_row, src_col>>:
\* acc = [destination, raised].
RECURSIVE ClearCells(_, _, _, _, _, _, _)
ClearCells(source, cells, k, acc, rmap, cmap, ignore) ==
    IF k > Len(cells) \/ acc.raised # "none" THEN acc
    ELSE
    LET src_row == cells[k][1]
        src_col == cells[k][2]
        label == Cell(source, src_row, 1)
        src_val == Cell(source, src_row, src_col)
        dst_val == Cell(acc.destination, rmap[src_row], cmap[src_col])
        next ==
            IF label = None \/ (ignore /\ is_blank(label)) \/ src_val = None
            THEN acc
            ELSE IF dst_val = None
            THEN [acc EXCEPT !.raised = "ConsistencyError: not found"]
            ELSE IF ~(IsNum(src_val) /\ IsNum(dst_val))
            THEN [acc EXCEPT !.raised = "TypeError"]
            ELSE IF ~isclose(src_val.n, dst_val.n)
            THEN [acc EXCEPT !.raised = "ConsistencyError: differs"]
            ELSE [acc EXCEPT !.destination =
                     AssignCell(@, rmap[src_row], cmap[src_col], None)]
    IN  ClearCells(source, cells, k + 1, next, rmap, cmap, ignore)

\* Variant that compares the values and leaves the destination as it was
ClearComparesOnly(dest, source, ignore, trim) ==
    LET recs == get_record_names(source)
        src_records == [k \in 1..Len(recs) |->
                           IF ignore /\ is_blank(recs[k]) THEN None
                           ELSE recs[k]]
        cls == get_class_names(source)
        src_classes == [k \in 1..Len(cls) |->
                           IF trim THEN trim_class_name(cls[k]) ELSE cls[k]]
        rmap == Mapped(get_record_names(dest), src_records)
        cmap == Mapped(get_class_names(dest), src_classes)
    IN  IF rmap = <<0>> \/ cmap = <<0>>
        THEN [destination |-> dest,
              raised |-> "ConsistencyError: not found"]
        ELSE [destination |-> dest,
              raised |-> ClearCells(source,
                             Pairs(2, max_row(source), 2, max_column(source)),
                             1, [destination |-> dest, raised |-> "none"],
                             rmap, cmap, ignore).raised]

\* clear_found_values(destination, source, ignore_blanks, trim_class_names):
\* [destination, raised], raised being "none" when it returns.
clear_found_values(dest, source, ignore, trim) ==
    LET dst_records == get_record_names(dest)
        recs == get_record_names(source)
        src_records == [k \in 1..Len(recs) |->
                           IF ignore /\ is_blank(recs[k]) THEN None
                           ELSE recs[k]]
        dst_classes == get_class_names(dest)
        cls == get_class_names(source)
        src_classes == [k \in 1..Len(cls) |->
                           IF trim THEN trim_class_name(cls[k]) ELSE cls[k]]
        rmap == Mapped(dst_records, src_records)
        cmap == Mapped(dst_classes, src_classes)
    IN  IF rmap = <<0>>
        THEN [destination |-> dest,
              raised |-> "ConsistencyError: not found"]
        ELSE IF cmap = <<0>>
        THEN [destination |-> dest,
              raised |-> "ConsistencyError: not found"]
        ELSE ClearCells(source,
                        Pairs(2, max_row(source), 2, max_column(source)), 1,
                        [destination |-> dest, raised |-> "none"],
                        rmap, cmap, ignore)

\* Variant that reads the labels as well
HasEmptySheet(sheet) ==
    \A r \in 1..max_row(sheet) : \A c \in 1..max_column(sheet) :
        Cell(sheet, r, c) = None

has_empty_data_set(sheet) ==
    \A r \in 2..max_row(sheet) : \A c \in 2..max_column(sheet) :
        Cell(sheet, r, c) = None

---------------------------------------------------------------------------
(* Workbooks: a sequence of worksheets [title, sheet] *)

LogTitle == "lipimerge.log"

sheetnames(wb) == [k \in 1..Len(wb) |-> wb[k].title]

HasSheet(wb, title) == \E k \in 1..Len(wb) : wb[k].title = title

\* The position of wb[title]
SheetAt(wb, title) == CHOOSE k \in 1..Len(wb) : wb[k].title = title

create_sheet(wb, title) == Append(wb, [title |-> title, sheet |-> Degenerate])

\* The largest row and column of sheet that hold a value, at least 1
UsedRows(sheet) ==
    LET used == {r \in 1..max_row(sheet) :
                    \E c \in 1..max_column(sheet) : sheet[r][c] # None}
    IN  IF used = {} THEN 1 ELSE CHOOSE r \in used : \A q \in used : q <= r

UsedColumns(sheet) ==
    LET used == {c \in 1..max_column(sheet) :
                    \E r \in 1..max_row(sheet) : sheet[r][c] # None}
    IN  IF used = {} THEN 1 ELSE CHOOSE c \in used : \A q \in used : q <= c

\* load_workbook of a workbook written by Workbook.save: the file holds the
\* cells that have a value, and the loaded sheet spans them.
Reload(wb) ==
    [k \in 1..Len(wb) |->
        [title |-> wb[k].title,
         sheet |-> [r \in 1..UsedRows(wb[k].sheet) |->
                       [c \in 1..UsedColumns(wb[k].sheet) |->
                           wb[k].sheet[r][c]]]]]

---------------------------------------------------------------------------
(* process.process *)

NoFile == <<>>

\* INIT: the workbook with the log sheet and its five header rows
NewResult ==
    << [title |-> LogTitle,
        sheet |-> << <<Str("LipidQuant merge v."), None, None>>,
                     <<Str("Time (Local)"), Str("<now>"), None>>,
                     <<Str("Time (UTC)"), Str("<utcnow>"), None>>,
                     <<None, None, None>>,
                     <<Str("File"), Str("Sheet"), Str("Status")>> >>] >>

\* logx(message): the status cell of the last log row
logx(wb, message) ==
    [wb EXCEPT ![1].sheet = SetCell(@, max_row(@), 3, Str(message))]

\* logxok(): `for row in log_sheet.iter_rows(min_row=6): row[2].value = "OK"`
logxok(wb) ==
    [wb EXCEPT ![1].sheet =
        [r \in 1..max_row(@) |-> [c \in 1..max_column(@) |->
            IF r >= 6 /\ c = 3 THEN Str("OK") ELSE @[r][c]]]]

LogAppend(wb, values) == [wb EXCEPT ![1].sheet = AppendRow(@, values)]

\* The file a path string denotes: "./a.xlsx" is another spelling of
\* "a.xlsx"
Resolved(path) == IF path = "./a.xlsx" THEN "a.xlsx" ELSE path

\* Variant that compares the files the paths denote
HasDuplicateFile(files) ==
    \E i \in 1..Len(files) : \E j \in (i + 1)..Len(files) :
        Resolved(files[i]) = Resolved(files[j])

\* CHECK: the output file and duplicate input files
HasDuplicateInput(files) ==
    \E i \in 1..Len(files) : \E j \in (i + 1)..Len(files) : files[i] = files[j]

Check ==
    /\ pc = "check"
    /\ IF output_exists \/ HasDuplicateInput(input_files)
       THEN /\ raised' = "InvalidFile"
            /\ pc' = "done"
       ELSE /\ raised' = raised
            /\ pc' = "validate"
    /\ fi' = 1
    /\ UNCHANGED <<store, input_files, output_exists, ignore_blanks,
                   trim_class_names, inconsistencies, ctx, result, saved,
                   out, destination, merged,
                   validated,
                   container, array, next_begin, swaps,
                   order, calls, scan>>

\* One round of `for input_file in input_files: validate_input(...)`
Validate ==
    /\ pc = "validate"
    /\ fi <= Len(input_files)
    /\ LET v == validate_input(store[input_files[fi]], input_files[fi],
                               ignore_blanks, inconsistencies, ctx)
       IN  /\ inconsistencies' = v.result
           /\ ctx' = v.context
    /\ validated' = Append(validated, input_files[fi])
    /\ fi' = fi + 1
    /\ UNCHANGED <<store, input_files, output_exists, ignore_blanks,
                   trim_class_names, pc, result, saved, out, raised,
                   destination, merged, container, array, next_begin, swaps,
                   order, calls, scan>>

FindingRow(c) ==
    << Str(c.workbook), Str(c.sheet),
       Str("[R" \o ToString(c.row) \o "C" \o ToString(c.col) \o "]: "
           \o c.message) >>

\* Variant that logs the first finding only
LogFirstFinding(wb, findings, k) ==
    LogAppend(wb, FindingRow(findings[1]))

RECURSIVE LogFindings(_, _, _)
LogFindings(wb, findings, k) ==
    IF k > Len(findings) THEN wb
    ELSE LogFindings(LogAppend(wb, FindingRow(findings[k])), findings, k + 1)

\* `if inconsistencies:` the findings are logged, the log is saved and
\* process raises
ValidationFailed ==
    /\ pc = "validate"
    /\ fi > Len(input_files)
    /\ inconsistencies # <<>>
    /\ result' = LogFindings(result, inconsistencies, 1)
    /\ saved' = result'
    /\ raised' = "ConsistencyError: invalid input"
    /\ pc' = "done"
    /\ UNCHANGED <<store, input_files, output_exists, ignore_blanks,
                   trim_class_names, fi, inconsistencies, ctx, out,
                   destination, merged,
                   validated,
                   container, array, next_begin, swaps,
                   order, calls, scan>>

\* The merge loop entered without regard to the validation
ValidationSkipped ==
    /\ pc = "validate"
    /\ pc' = "merge"
    /\ fi' = 1
    /\ UNCHANGED <<store, input_files, output_exists, ignore_blanks,
                   trim_class_names, inconsistencies, ctx, result, saved,
                   out, raised, destination, merged, validated,
                   container, array, next_begin, swaps,
                   order, calls, scan>>

ValidationPassed ==
    /\ pc = "validate"
    /\ fi > Len(input_files)
    /\ inconsistencies = <<>>
    /\ pc' = "merge"
    /\ fi' = 1
    /\ UNCHANGED <<store, input_files, output_exists, ignore_blanks,
                   trim_class_names, inconsistencies, ctx, result, saved,
                   out, raised, destination, merged,
                   validated,
                   container, array, next_begin, swaps,
                   order, calls, scan>>

\* The body of `for sheet in wb.worksheets` of the merge loop
MergeOneSheet(wb, input_file, ws, ignore) ==
    LET w1 == LogAppend(wb, <<Str(input_file), Str(ws.title), Str("?")>>)
        w2 == IF HasSheet(w1, ws.title) THEN w1
              ELSE create_sheet(w1, ws.title)
        w3 == logx(w2, "Processing: ")
        at == SheetAt(w3, ws.title)
        w4 == [w3 EXCEPT ![at].sheet = merge(@, ws.sheet, ignore)]
    IN  logx(w4, "Waiting for validation!")

RECURSIVE MergeSheets(_, _, _, _, _)
MergeSheets(wb, input_file, workbook, k, ignore) ==
    IF k > Len(workbook) THEN wb
    ELSE MergeSheets(MergeOneSheet(wb, input_file, workbook[k], ignore),
                     input_file, workbook, k + 1, ignore)

\* One round of `for input_file in input_files:` of the merge loop
MergeFile ==
    /\ pc = "merge"
    /\ fi <= Len(input_files)
    /\ result' = MergeSheets(result, input_files[fi], store[input_files[fi]],
                             1, ignore_blanks)
    /\ merged' = merged \o [k \in 1..Len(store[input_files[fi]]) |->
                                store[input_files[fi]][k].sheet]
    /\ fi' = fi + 1
    /\ UNCHANGED <<store, input_files, output_exists, ignore_blanks,
                   trim_class_names, pc, inconsistencies, ctx, saved, out,
                   raised, destination, validated,
                   container, array, next_begin, swaps,
                   order, calls, scan>>

\* `col[0].value = col[0].value.strip()` for the columns from 2 on
TrimSheet(sheet) ==
    [sheet EXCEPT ![1] = [c \in 1..max_column(sheet) |->
        IF c >= 2 /\ sheet[1][c] # None THEN Str(strip(sheet[1][c].s))
        ELSE sheet[1][c]]]

\* SORT & SAVE: the class names are trimmed when trim_class_names is set
Trim ==
    /\ pc = "merge"
    /\ fi > Len(input_files)
    /\ result' = [k \in 1..Len(result) |->
                    IF trim_class_names /\ result[k].title # LogTitle
                    THEN [result[k] EXCEPT !.sheet = TrimSheet(@)]
                    ELSE result[k]]
    /\ pc' = "sort"
    /\ UNCHANGED <<store, input_files, output_exists, ignore_blanks,
                   trim_class_names, fi, inconsistencies, ctx, saved, out,
                   raised, destination, merged,
                   validated,
                   container, array, next_begin, swaps,
                   order, calls, scan>>

\* SORT & SAVE: the columns of every data sheet are sorted
Sort ==
    /\ pc = "sort"
    /\ result' = [k \in 1..Len(result) |->
                    IF result[k].title # LogTitle
                    THEN [result[k] EXCEPT !.sheet = SortColumns(@, 2)]
                    ELSE result[k]]
    /\ pc' = "save"
    /\ UNCHANGED <<store, input_files, output_exists, ignore_blanks,
                   trim_class_names, fi, inconsistencies, ctx, saved, out,
                   raised, destination, merged,
                   validated,
                   container, array, next_begin, swaps,
                   order, calls, scan>>

\* result.save(output_file), and VALIDATE reopens the file
Save ==
    /\ pc = "save"
    /\ saved' = result
    /\ out' = Reload(result)
    /\ pc' = "verify"
    /\ fi' = 1
    /\ UNCHANGED <<store, input_files, output_exists, ignore_blanks,
                   trim_class_names, inconsistencies, ctx, result, raised,
                   destination, merged,
                   validated,
                   container, array, next_begin, swaps,
                   order, calls, scan>>

\* `for sheet in inp.worksheets:` of Output validation (1/2):
\* acc = [out, raised]
RECURSIVE VerifySheets(_, _, _, _, _)
VerifySheets(acc, workbook, k, ignore, trim) ==
    IF k > Len(workbook) \/ acc.raised # "none" THEN acc
    ELSE IF ~HasSheet(acc.out, workbook[k].title)
    THEN [acc EXCEPT !.raised = "ConsistencyError: missing sheet"]
    ELSE LET at == SheetAt(acc.out, workbook[k].title)
             c == clear_found_values(acc.out[at].sheet, workbook[k].sheet,
                                     ignore, trim)
         IN  VerifySheets([out |-> [acc.out EXCEPT ![at].sheet = c.destination],
                           raised |-> c.raised],
                          workbook, k + 1, ignore, trim)

\* One round of `for input_file in input_files:` of Output validation (1/2)
VerifyFile ==
    /\ pc = "verify"
    /\ fi <= Len(input_files)
    /\ LET v == VerifySheets([out |-> out, raised |-> "none"],
                             store[input_files[fi]], 1, ignore_blanks,
                             trim_class_names)
       IN  /\ out' = v.out
           /\ raised' = v.raised
           /\ pc' = IF v.raised = "none" THEN "verify" ELSE "done"
    /\ fi' = fi + 1
    /\ UNCHANGED <<store, input_files, output_exists, ignore_blanks,
                   trim_class_names, inconsistencies, ctx, result, saved,
                   destination, merged,
                   validated,
                   container, array, next_begin, swaps,
                   order, calls, scan>>

\* Output validation (2/2): has_empty_data_set of every data sheet
AllEmpty(wb) ==
    \A k \in 1..Len(wb) :
        wb[k].title # LogTitle => has_empty_data_set(wb[k].sheet)

VerifyEmpty ==
    /\ pc = "verify"
    /\ fi > Len(input_files)
    /\ IF AllEmpty(out)
       THEN /\ pc' = "finalize"
            /\ raised' = raised
       ELSE /\ pc' = "done"
            /\ raised' = "ConsistencyError: not empty"
    /\ UNCHANGED <<store, input_files, output_exists, ignore_blanks,
                   trim_class_names, fi, inconsistencies, ctx, result, saved,
                   out, destination, merged,
                   validated,
                   container, array, next_begin, swaps,
                   order, calls, scan>>

\* FINALIZE: the statuses become OK and the workbook is saved again
Finalize ==
    /\ pc = "finalize"
    /\ result' = logxok(result)
    /\ saved' = result'
    /\ raised' = "Success"
    /\ pc' = "done"
    /\ UNCHANGED <<store, input_files, output_exists, ignore_blanks,
                   trim_class_names, fi, inconsistencies, ctx, out,
                   destination, merged,
                   validated,
                   container, array, next_begin, swaps,
                   order, calls, scan>>

---------------------------------------------------------------------------
(* Bounded inputs *)

\* The largest sheet handed to validate_input
MaxRow == 4
MaxCol == 4
\* The largest number of rows and columns below and right of the corner
MaxLabels == 4
\* The largest number of non-empty data cells of such a sheet
MaxData == 2

RecordNames == {None, Str("S1"), Str("Blank 1")}
ClassNames == {None, Str("PC"), Str("PE")}
Corners == {None, Str("x")}
CellValues == {None, Num(100)}

\* The sheet with the given corner, record names rl (rows 2..), class names
\* cl (columns 2..) and data cells d
Grid(corner, rl, cl, d) ==
    [r \in 1..(Len(rl) + 1) |-> [c \in 1..(Len(cl) + 1) |->
        IF r = 1 /\ c = 1 THEN corner
        ELSE IF r = 1 THEN cl[c - 1]
        ELSE IF c = 1 THEN rl[r - 1]
        ELSE d[<<r, c>>]]]

Filled(d) == Cardinality({p \in DOMAIN d : d[p] # None})

\* The data cells of a sheet of nr rows and nc columns with at most n
\* non-empty cells
DataCells(nr, nc, values, n) ==
    {d \in [(2..nr) \X (2..nc) -> values] : Filled(d) <= n}

\* validate_input on one workbook that holds any one sheet
InitValidate ==
    /\ \E nr \in 1..MaxRow, nc \in 1..MaxCol :
       /\ (nr - 1) + (nc - 1) <= MaxLabels
       /\ \E k \in Corners, rl \in [1..(nr - 1) -> RecordNames],
          cl \in [1..(nc - 1) -> ClassNames],
          d \in DataCells(nr, nc, CellValues, MaxData) :
           store = ("a.xlsx" :> << [title |-> "S",
                                    sheet |-> Grid(k, rl, cl, d)] >>)
    /\ input_files = <<"a.xlsx">>
    /\ output_exists = FALSE
    /\ ignore_blanks \in BOOLEAN
    /\ trim_class_names = FALSE
    /\ pc = "validate"
    /\ fi = 1
    /\ inconsistencies = <<>>
    /\ ctx = <<>>
    /\ result = NewResult
    /\ saved = NoFile
    /\ out = NoFile
    /\ raised = "none"
    /\ destination = Degenerate
    /\ merged = <<>>
    /\ validated = <<>>
    /\ container = <<>>
    /\ array = <<>>
    /\ next_begin = 0
    /\ swaps = <<>>
    /\ order = {}
    /\ calls = <<>>
    /\ scan = <<>>

SpecValidate == InitValidate /\ [][Validate]_vars

---------------------------------------------------------------------------
(* Runs of process *)

\* The longest list of input files
MaxFiles == 2

FileNames == {"a.xlsx", "./a.xlsx", "b.xlsx"}

Files == {Resolved(path) : path \in FileNames}

OneSheet(title, sheet) == << [title |-> title, sheet |-> sheet] >>

\* The workbooks an input file can hold
Workbooks ==
    { \* numbers, the columns not in ascending order
      OneSheet("S", << <<None, Str("PE"), Str("PC")>>,
                       <<Str("S1"), Num(100), Num(200)>> >>),
      \* other records, a column of its own, an empty blank sample
      OneSheet("S", << <<None, Str("PC"), Str("PA")>>,
                       <<Str("S2"), Num(300), None>>,
                       <<Str("Blank 1"), None, None>> >>),
      \* the pairs of the first workbook again
      OneSheet("S", << <<None, Str("PC")>>,
                       <<Str("S1"), Num(100)>>,
                       <<Str("S3"), Num(100)>> >>),
      \* a string value
      OneSheet("S", << <<None, Str("PG")>>,
                       <<Str("S4"), Str("x")>> >>),
      \* a blank sample with a value in the last column
      OneSheet("S", << <<None, Str("PI"), Str("PS")>>,
                       <<Str("Blank 2"), None, Num(100)>> >>),
      \* a blank sample with a value in a column before the last
      OneSheet("S", << <<None, Str("PI"), Str("PS")>>,
                       <<Str("blank 3"), Num(100), None>> >>),
      \* a class name with surrounding whitespace
      OneSheet("S", << <<None, Str(" PC")>>,
                       <<Str("S5"), Num(100)>> >>),
      \* a non-empty corner
      OneSheet("S", << <<Str("x"), Str("PC")>>,
                       <<Str("S1"), Num(100)>> >>),
      \* a class name twice, a value under an empty record name
      OneSheet("S", << <<None, Str("PC"), Str("PC")>>,
                       <<None, Num(100), None>> >>),
      \* class names only
      OneSheet("S", << <<None, Str("SM"), Str("LPC")>> >>),
      \* a sheet without any cell
      OneSheet("S", Degenerate),
      \* two sheets
      << [title |-> "S", sheet |-> << <<None, Str("TG"), Str("DG")>>,
                                      <<Str("S6"), Num(100), Num(200)>> >>],
         [title |-> "T", sheet |-> << <<None, Str("PC")>>,
                                      <<Str("S1"), Num(400)>> >>] >>,
      \* another sheet name
      OneSheet("T", << <<None, Str("PE"), Str("PC")>>,
                       <<Str("S1"), None, Num(500)>>,
                       <<Str("S2"), Num(600), None>> >>),
      \* a sheet with the title of the log sheet
      OneSheet(LogTitle, << <<None, Str("PC")>>,
                            <<Str("S1"), Num(100)>> >>) }

\* The lists of at most MaxFiles file names
InputLists ==
    UNION {[1..n -> FileNames] : n \in 1..MaxFiles}

Init ==
    /\ \E disk \in [Files -> Workbooks] :
           store = [path \in FileNames |-> disk[Resolved(path)]]
    /\ input_files \in InputLists
    /\ output_exists \in BOOLEAN
    /\ ignore_blanks \in BOOLEAN
    /\ trim_class_names \in BOOLEAN
    /\ pc = "check"
    /\ fi = 1
    /\ inconsistencies = <<>>
    /\ ctx = <<>>
    /\ result = NewResult
    /\ saved = NoFile
    /\ out = NoFile
    /\ raised = "none"
    /\ destination = Degenerate
    /\ merged = <<>>
    /\ validated = <<>>
    /\ container = <<>>
    /\ array = <<>>
    /\ next_begin = 0
    /\ swaps = <<>>
    /\ order = {}
    /\ calls = <<>>
    /\ scan = <<>>

Next ==
    \/ Check
    \/ Validate
    \/ ValidationFailed
    \/ ValidationPassed
    \/ MergeFile
    \/ Trim
    \/ Sort
    \/ Save
    \/ VerifyFile
    \/ VerifyEmpty
    \/ Finalize

Spec == Init /\ [][Next]_vars

---------------------------------------------------------------------------
(* Sequences of merge calls *)

\* The number of merge calls that repeat an earlier source
MaxAgain == 1

SourceShapes ==
    {<<1, 1>>, <<1, 2>>, <<2, 1>>, <<2, 2>>, <<1, 3>>, <<3, 1>>, <<2, 3>>,
     <<3, 2>>}
SourceRecords == {None, Str("S1"), Str("S2"), Str("Blank 1")}
SourceClasses == {None, Str("PC"), Str("PE")}
SourceValues == {None, Num(100), Str("x")}

SourceSheets ==
    UNION { { Grid(None, rl, cl, d) :
                rl \in [1..(sh[1] - 1) -> SourceRecords],
                cl \in [1..(sh[2] - 1) -> SourceClasses],
                d \in [(2..sh[1]) \X (2..sh[2]) -> SourceValues] } :
            sh \in SourceShapes }

\* A sheet is valid when validate_input reports nothing for it.
IsValid(sheet, ignore) ==
    validate_input(<< [title |-> "S", sheet |-> sheet] >>, "source", ignore,
                   <<>>, <<>>).result = <<>>

ValidSourcesIgnoring == {g \in SourceSheets : IsValid(g, TRUE)}
ValidSourcesStrict == {g \in SourceSheets : IsValid(g, FALSE)}

ValidSources(ignore) ==
    IF ignore THEN ValidSourcesIgnoring ELSE ValidSourcesStrict

Range(seq) == {seq[k] : k \in 1..Len(seq)}

\* A source of at most one labelled row and one labelled column
IsSmall(sheet) == max_row(sheet) <= 2 /\ max_column(sheet) <= 2

\* merge(destination, source, ignore_blanks): the first two calls with valid
\* sources, one of them small, the calls after with a source merged before
MergeCall ==
    /\ pc = "merging"
    /\ Len(merged) < 2 + MaxAgain
    /\ \E source \in (IF Len(merged) < 2 THEN ValidSources(ignore_blanks)
                      ELSE Range(merged)) :
           /\ Len(merged) = 1 => IsSmall(merged[1]) \/ IsSmall(source)
           /\ destination' = merge(destination, source, ignore_blanks)
           /\ merged' = Append(merged, source)
    /\ UNCHANGED <<store, input_files, output_exists, ignore_blanks,
                   trim_class_names, pc, fi, inconsistencies, ctx, result,
                   saved, out, raised, validated,
                   container, array, next_begin, swaps,
                   order, calls, scan>>

InitMerge ==
    /\ store = <<>>
    /\ input_files = <<>>
    /\ output_exists = FALSE
    /\ ignore_blanks \in BOOLEAN
    /\ trim_class_names = FALSE
    /\ pc = "merging"
    /\ fi = 1
    /\ inconsistencies = <<>>
    /\ ctx = <<>>
    /\ result = NewResult
    /\ saved = NoFile
    /\ out = NoFile
    /\ raised = "none"
    /\ destination = Degenerate
    /\ merged = <<>>
    /\ validated = <<>>
    /\ container = <<>>
    /\ array = <<>>
    /\ next_begin = 0
    /\ swaps = <<>>
    /\ order = {}
    /\ calls = <<>>
    /\ scan = <<>>

SpecMerge == InitMerge /\ [][MergeCall]_vars

---------------------------------------------------------------------------
(* The content of a table *)

RowLabels(sheet) == {Cell(sheet, r, 1) : r \in 2..max_row(sheet)}

ColumnLabels(sheet) == {Cell(sheet, 1, c) : c \in 2..max_column(sheet)}

\* The rows of a source that merge and verification read
MergedRows(source, ignore) ==
    {r \in 2..max_row(source) :
        /\ Cell(source, r, 1) # None
        /\ ~(ignore /\ is_blank(Cell(source, r, 1)))}

\* The non-empty data cells of the given rows
DataIn(sheet, rows) ==
    {p \in rows \X (2..max_column(sheet)) : Cell(sheet, p[1], p[2]) # None}

\* The set of (row label, column label, value) triples of the given rows
TriplesIn(sheet, rows) ==
    {<<Cell(sheet, p[1], 1), Cell(sheet, 1, p[2]), Cell(sheet, p[1], p[2])>> :
        p \in DataIn(sheet, rows)}

Triples(sheet) == TriplesIn(sheet, 2..max_row(sheet))

\* Two sources collide when both hold a value for the same pair of labels.
Collide(a, b, ignore) ==
    \E s \in TriplesIn(a, MergedRows(a, ignore)) :
        \E t \in TriplesIn(b, MergedRows(b, ignore)) :
            s[1] = t[1] /\ s[2] = t[2]

NonColliding(sources, ignore) ==
    \A i \in 1..Len(sources) : \A j \in 1..Len(sources) :
        sources[i] # sources[j] => ~Collide(sources[i], sources[j], ignore)

\* The rows, respectively columns, of sheet that carry the label
RowsOf(sheet, label) == {r \in 1..max_row(sheet) : Cell(sheet, r, 1) = label}

ColumnsOf(sheet, label) ==
    {c \in 1..max_column(sheet) : Cell(sheet, 1, c) = label}

LastMerged == merged[Len(merged)]

Merging == Len(merged') = Len(merged) + 1

---------------------------------------------------------------------------
(* Properties of merge, under SpecMerge *)

\* C2: after merge(destination, source, ignore_blanks) with a valid source,
\* every non-empty cell of a labelled source row (not blank-classified when
\* ignore_blanks) is held by the destination cell whose row carries exactly
\* the source row label and whose column carries exactly the source column
\* label; a label the destination had keeps its place, and a label it lacked
\* is appended below the last row, respectively right of the last column.
C2_MergePostcondition ==
    [][Merging =>
        LET source == merged'[Len(merged')]
        IN  \A p \in DataIn(source, MergedRows(source, ignore_blanks)) :
                LET record == Cell(source, p[1], 1)
                    cls == Cell(source, 1, p[2])
                    rows == RowsOf(destination', record)
                    columns == ColumnsOf(destination', cls)
                IN  /\ rows # {} /\ columns # {}
                    /\ \A r \in rows : \A c \in columns :
                           Cell(destination', r, c) = Cell(source, p[1], p[2])
                    /\ IF RowsOf(destination, record) # {}
                       THEN rows = RowsOf(destination, record)
                       ELSE \A r \in rows : r > max_row(destination)
                    /\ IF ColumnsOf(destination, cls) # {}
                       THEN columns = ColumnsOf(destination, cls)
                       ELSE \A c \in columns : c > max_column(destination)
      ]_vars

\* A second merge has put a value into a row the destination had, at another
\* position than in the source, and into a column it lacked.
C2_Witness ==
    /\ Len(merged) = 2
    /\ \E p \in DataIn(LastMerged, MergedRows(LastMerged, ignore_blanks)) :
           LET record == Cell(LastMerged, p[1], 1)
               cls == Cell(LastMerged, 1, p[2])
           IN  /\ record \in RowLabels(merged[1])
               /\ cls \notin ColumnLabels(merged[1])
               /\ \E r \in RowsOf(destination, record) :
                      \E c \in ColumnsOf(destination, cls) :
                          /\ r # p[1]
                          /\ c # p[2]
                          /\ Cell(destination, r, c) =
                                 Cell(LastMerged, p[1], p[2])

\* The labels of the rows and columns that the merged sources contribute
MergedRowLabels ==
    UNION { {Cell(merged[k], r, 1) : r \in MergedRows(merged[k], ignore_blanks)} :
            k \in 1..Len(merged) }

MergedColumnLabels ==
    UNION { ColumnLabels(merged[k]) \ {None} : k \in 1..Len(merged) }

MergedTriples ==
    UNION { TriplesIn(merged[k], MergedRows(merged[k], ignore_blanks)) :
            k \in 1..Len(merged) }

\* C3: after any sequence of merges of valid sources into a degenerate
\* destination, the destination has an empty corner, a non-empty label on
\* every column >= 2 and on every row >= 2, no label twice among its rows or
\* among its columns, and nothing that comes from a source row or column
\* with an empty label.
C3_MergePreservesFormat ==
    /\ Cell(destination, 1, 1) = None
    /\ \A c \in 2..max_column(destination) : Cell(destination, 1, c) # None
    /\ \A r \in 2..max_row(destination) : Cell(destination, r, 1) # None
    /\ \A r \in 2..max_row(destination) : \A q \in 2..max_row(destination) :
           r # q => Cell(destination, r, 1) # Cell(destination, q, 1)
    /\ \A c \in 2..max_column(destination) :
           \A d \in 2..max_column(destination) :
               c # d => Cell(destination, 1, c) # Cell(destination, 1, d)
    /\ \A r \in 1..max_row(destination) :
           Len(destination[r]) = max_column(destination)
    /\ RowLabels(destination) = MergedRowLabels
    /\ ColumnLabels(destination) = MergedColumnLabels
    /\ Triples(destination) \subseteq MergedTriples

\* Two merges, the first of a source with an unlabelled row, have built a
\* destination of three rows and three columns that holds their values.
C3_Witness ==
    /\ Len(merged) = 2
    /\ None \in RowLabels(merged[1])
    /\ max_row(destination) >= 3
    /\ max_column(destination) >= 3
    /\ Cardinality(Triples(destination)) >= 2

\* C5: merging a valid source again, right after its first merge or after
\* merges of other sources that do not collide with it, leaves the
\* destination as it is: no new row, no new column, no changed cell.
C5_MergeIdempotent ==
    [][(/\ Merging
        /\ merged'[Len(merged')] \in Range(merged)
        /\ NonColliding(merged, ignore_blanks))
       => destination' = destination]_vars

\* A source with data has been merged again after another source that added
\* a column and data to one of its rows.
C5_Witness ==
    /\ Len(merged) = 3
    /\ merged[3] = merged[1]
    /\ merged[2] # merged[1]
    /\ NonColliding(merged, ignore_blanks)
    /\ TriplesIn(merged[1], MergedRows(merged[1], ignore_blanks)) # {}
    /\ \E t \in TriplesIn(merged[2], MergedRows(merged[2], ignore_blanks)) :
           /\ t[1] \in RowLabels(merged[1])
           /\ t[2] \notin ColumnLabels(merged[1])

\* Verification of dest against first and then against second returns both
\* times and leaves an empty data set.
VerifiesEmpty(dest, first, second, ignore) ==
    LET one == clear_found_values(dest, first, ignore, FALSE)
        two == clear_found_values(one.destination, second, ignore, FALSE)
    IN  /\ one.raised = "none"
        /\ two.raised = "none"
        /\ has_empty_data_set(two.destination)

SameContent(a, b) ==
    /\ RowLabels(a) = RowLabels(b)
    /\ ColumnLabels(a) = ColumnLabels(b)
    /\ Triples(a) = Triples(b)

\* The destination of merging b and then a into a degenerate destination
OtherOrder ==
    merge(merge(Degenerate, merged[2], ignore_blanks), merged[1],
          ignore_blanks)

\* C4: for valid sources A and B that do not collide, merging A then B and
\* merging B then A into a degenerate destination give the same row labels,
\* the same column labels and the same (row label, column label, value)
\* triples, and in either merge order verification against A and B, in
\* either order, leaves an empty data set.
C4_MergeCommutative ==
    (Len(merged) = 2 /\ ~Collide(merged[1], merged[2], ignore_blanks)) =>
        /\ SameContent(destination, OtherOrder)
        /\ VerifiesEmpty(destination, merged[1], merged[2], ignore_blanks)
        /\ VerifiesEmpty(destination, merged[2], merged[1], ignore_blanks)
        /\ VerifiesEmpty(OtherOrder, merged[1], merged[2], ignore_blanks)
        /\ VerifiesEmpty(OtherOrder, merged[2], merged[1], ignore_blanks)

\* The values of all merged sources are numbers.
NumbersOnly == \A t \in MergedTriples : IsNum(t[3])

\* The statement of C4 for sources whose values are all numbers
C4_OnNumbers == NumbersOnly => C4_MergeCommutative

\* The content half of C4, whatever the values
C4_ContentOnly ==
    (Len(merged) = 2 /\ ~Collide(merged[1], merged[2], ignore_blanks)) =>
        SameContent(destination, OtherOrder)

---------------------------------------------------------------------------
(* Properties of process, under Spec *)

\* validate_input has run on every input file and has found nothing.
Accepted ==
    /\ validated = input_files
    /\ inconsistencies = <<>>

\* The sheets of the input files, in the order process reads them
RECURSIVE InputSheets(_)
InputSheets(k) ==
    IF k > Len(input_files) THEN <<>>
    ELSE store[input_files[k]] \o InputSheets(k + 1)

\* No input sheet has the title of the log sheet: every sheet name gets a
\* destination of its own, which starts degenerate.
OwnDestinations ==
    \A k \in 1..Len(InputSheets(1)) : InputSheets(1)[k].title # LogTitle

\* C1: for every input set that validate_input accepts, with
\* trim_class_names off and one ignore_blanks value, after the merge of
\* every input sheet in input order and the column sort, clear_found_values
\* for every input sheet in the same order raises nothing and
\* has_empty_data_set holds for every merged sheet, so process succeeds.
C1_RoundTrip ==
    (pc = "done" /\ Accepted /\ ~trim_class_names /\ OwnDestinations)
        => raised = "Success"

\* Every value of the input sheets is a number.
NumericInput ==
    \A k \in 1..Len(InputSheets(1)) :
        \A t \in Triples(InputSheets(1)[k].sheet) : IsNum(t[3])

\* The statement of C1 for input sets whose values are all numbers
C1_OnNumbers == NumericInput => C1_RoundTrip

\* A run with an accepted input set that holds a string value has ended.
C1_StringRun ==
    /\ pc = "done"
    /\ Accepted /\ ~trim_class_names /\ OwnDestinations
    /\ ~NumericInput

\* C15: with trim_class_names on, for every input set that validate_input
\* accepts, process (merge by exact labels, strip of the merged column
\* labels, sort, verification with trimmed source column labels) passes
\* verification with an empty data set left, also when two column labels of
\* one sheet name differ only by surrounding whitespace.
C15_TrimmedRoundTrip ==
    (pc = "done" /\ Accepted /\ trim_class_names /\ OwnDestinations)
        => raised = "Success"

\* C15, for input sets whose values are all numbers: with trim_class_names
\* on, every accepted input set passes verification with an empty data set
\* left, also when two column labels of one sheet name differ only by
\* surrounding whitespace.
C15_OnNumbers == NumericInput => C15_TrimmedRoundTrip

\* The class names of the input sheets with the title of sheet k
ClassNamesFor(k) ==
    UNION {ColumnLabels(InputSheets(1)[j].sheet) \ {None} :
               j \in {i \in 1..Len(InputSheets(1)) :
                          InputSheets(1)[i].title = InputSheets(1)[k].title}}

\* No two class names of one sheet name differ only by surrounding
\* whitespace.
DistinctWhenTrimmed ==
    \A k \in 1..Len(InputSheets(1)) :
        \A a, b \in ClassNamesFor(k) : strip(a.s) = strip(b.s) => a = b

\* The statement of C15 for numbers under class names that stay distinct
C15_OnDistinctNames ==
    (NumericInput /\ DistinctWhenTrimmed) => C15_TrimmedRoundTrip

\* A run with trim_class_names on has ended for an accepted input set in
\* which two class names of one sheet name differ only by whitespace.
C15_WhitespaceRun ==
    /\ pc = "done"
    /\ Accepted /\ trim_class_names /\ OwnDestinations
    /\ NumericInput /\ ~DistinctWhenTrimmed

Sorting == pc = "sort" /\ pc' = "save"

\* The class names of columns 2 .. last are in ascending order.
ColumnsAscending(sheet, last) ==
    \A c, d \in 2..last :
        c < d => ~StrLess(Cell(sheet, 1, d).s, Cell(sheet, 1, c).s)

\* C18: when process has finished its sort stage, in every merged data
\* sheet the labels of columns 2 .. max_column are in ascending order, for
\* every number and every initial order of merged columns, while column 1
\* (the row labels) stays in place.
C18_ColumnsSorted ==
    [][Sorting =>
        \A k \in 1..Len(result) : result[k].title # LogTitle =>
            /\ ColumnsAscending(result'[k].sheet, max_column(result'[k].sheet))
            /\ \A r \in 1..max_row(result[k].sheet) :
                   Cell(result'[k].sheet, r, 1) = Cell(result[k].sheet, r, 1)
      ]_vars

\* The statement of C18 for the columns before the last
C18_BeforeLastColumn ==
    [][Sorting =>
        \A k \in 1..Len(result) : result[k].title # LogTitle =>
            /\ ColumnsAscending(result'[k].sheet,
                                max_column(result'[k].sheet) - 1)
            /\ \A r \in 1..max_row(result[k].sheet) :
                   Cell(result'[k].sheet, r, 1) = Cell(result[k].sheet, r, 1)
      ]_vars

\* The sort stage has ended with a data sheet of three classes whose last
\* class name is less than the one of column 2.
C18_LastColumnLeft ==
    /\ pc = "save"
    /\ \E k \in 1..Len(result) :
           /\ result[k].title # LogTitle
           /\ max_column(result[k].sheet) >= 4
           /\ column_less(result[k].sheet, max_column(result[k].sheet), 2)

\* C6: in every run of process, a merge or a data sheet in the output exists
\* only after validate_input has run on every input workbook, and never
\* when validate_input has produced a finding.
C6_ValidationPrecedesMerging ==
    (merged # <<>> \/ Len(result) > 1 \/ Len(saved) > 1)
        => (validated = input_files /\ inconsistencies = <<>>)

\* The sheets of two validated input files have been merged into data
\* sheets of the output.
C6_Witness ==
    /\ Len(input_files) = 2
    /\ validated = input_files
    /\ Len(merged) >= 2
    /\ Len(result) > 1

---------------------------------------------------------------------------
(* Properties of validate_input, under SpecValidate *)

\* The sheet handed to validate_input
TheSheet == store["a.xlsx"][1].sheet

HasValidated == validated # <<>>

\* The findings, as positions in the result list
Findings == 1..Len(inconsistencies)

FindingsWith(msg) == {i \in Findings : inconsistencies[i].message = msg}

FindingsAt(r, c) ==
    {i \in Findings : inconsistencies[i].row = r /\ inconsistencies[i].col = c}

Places(found) ==
    {<<inconsistencies[i].row, inconsistencies[i].col>> : i \in found}

\* C7: for a sheet with a non-empty corner cell validate_input appends
\* exactly one finding, at row 1 column 1, and runs none of the further
\* checks on the sheet, whatever else the sheet contains.
C7_CornerOnly ==
    (HasValidated /\ Cell(TheSheet, 1, 1) # None) =>
        /\ Len(inconsistencies) = 1
        /\ Places(Findings) = {<<1, 1>>}

\* C8: a non-empty label that occurs k >= 2 times among the row labels
\* (blank-classified labels excepted when ignore_blanks) or among the column
\* labels of a sheet gets exactly k duplicate findings, one at the position
\* of each occurrence, the first included; a label that occurs once gets
\* none.
C8_DuplicateFindings ==
    (HasValidated /\ Cell(TheSheet, 1, 1) = None) =>
        /\ \A label \in RowLabels(TheSheet) \ {None} :
               LET rows == RowsOf(TheSheet, label)
                   found == FindingsWith(MsgDupRecord(label))
               IN  IF /\ Cardinality(rows) >= 2
                      /\ ~(ignore_blanks /\ is_blank(label))
                   THEN /\ Cardinality(found) = Cardinality(rows)
                        /\ Places(found) = {<<r, 1>> : r \in rows}
                   ELSE found = {}
        /\ \A label \in ColumnLabels(TheSheet) \ {None} :
               LET columns == ColumnsOf(TheSheet, label)
                   found == FindingsWith(MsgDupClass(label))
               IN  IF Cardinality(columns) >= 2
                   THEN /\ Cardinality(found) = Cardinality(columns)
                        /\ Places(found) = {<<1, c>> : c \in columns}
                   ELSE found = {}

\* A record name on three rows has got its three findings, next to a class
\* name that occurs once.
C8_Witness ==
    /\ HasValidated
    /\ Cell(TheSheet, 1, 1) = None
    /\ \E label \in RowLabels(TheSheet) \ {None} :
           /\ Cardinality(RowsOf(TheSheet, label)) = 3
           /\ Cardinality(FindingsWith(MsgDupRecord(label))) = 3
    /\ ColumnLabels(TheSheet) \ {None} # {}

\* The non-empty data cells of a column
DataOfColumn(sheet, c) ==
    {r \in 2..max_row(sheet) : Cell(sheet, r, c) # None}

\* The findings in a column, below the labels
FindingsInColumn(c) ==
    {i \in Findings : inconsistencies[i].col = c /\ inconsistencies[i].row >= 2}

\* C9: in a sheet with an empty corner, a column >= 2 with an empty label and
\* exactly one non-empty data cell yields exactly one finding, at that
\* cell, whether the row label of the cell is empty or not; and every
\* non-empty data cell of a row with an empty label is reported at its
\* position.
C9_EmptyLabelFindings ==
    (HasValidated /\ Cell(TheSheet, 1, 1) = None) =>
        /\ \A c \in 2..max_column(TheSheet) :
               (/\ Cell(TheSheet, 1, c) = None
                /\ Cardinality(DataOfColumn(TheSheet, c)) = 1)
               => /\ Cardinality(FindingsInColumn(c)) = 1
                  /\ Places(FindingsInColumn(c)) =
                         {<<r, c>> : r \in DataOfColumn(TheSheet, c)}
        /\ \A r \in 2..max_row(TheSheet) : \A c \in 2..max_column(TheSheet) :
               (Cell(TheSheet, r, 1) = None /\ Cell(TheSheet, r, c) # None)
               => FindingsAt(r, c) \cap FindingsWith(MsgEmptyRecord) # {}

\* The statement of C9 for sheets in which no value stands in a row with an
\* empty label, nor in a row that the blank check reads
C9_InLabelledRows ==
    (\A r \in 2..max_row(TheSheet) : \A c \in 2..max_column(TheSheet) :
        Cell(TheSheet, r, c) # None
        => /\ Cell(TheSheet, r, 1) # None
           /\ (ignore_blanks \/ ~is_blank(Cell(TheSheet, r, 1))))
    => C9_EmptyLabelFindings

\* C10: with ignore_blanks false every non-empty data cell of a row with a
\* blank-classified label, in any column from 2 to max_column, gets one
\* finding of the blank check at its position; with ignore_blanks true it
\* gets none.
C10_BlankFindings ==
    (HasValidated /\ Cell(TheSheet, 1, 1) = None) =>
        \A r \in 2..max_row(TheSheet) : \A c \in 2..max_column(TheSheet) :
            (is_blank(Cell(TheSheet, r, 1)) /\ Cell(TheSheet, r, c) # None)
            => Cardinality(FindingsAt(r, c) \cap FindingsWith(MsgBlank))
                   = IF ignore_blanks THEN 0 ELSE 1

\* The statement of C10 for the columns before the last
C10_BeforeLastColumn ==
    (HasValidated /\ Cell(TheSheet, 1, 1) = None) =>
        \A r \in 2..max_row(TheSheet) :
            \A c \in 2..(max_column(TheSheet) - 1) :
                (is_blank(Cell(TheSheet, r, 1)) /\ Cell(TheSheet, r, c) # None)
                => Cardinality(FindingsAt(r, c) \cap FindingsWith(MsgBlank))
                       = IF ignore_blanks THEN 0 ELSE 1

---------------------------------------------------------------------------
(* Sequences of validate_input calls that thread one context *)

AcrossShapes == {<<2, 2>>, <<3, 2>>, <<2, 3>>}
AcrossRecordNames == {None, Str("S1"), Str("Blank 1")}
AcrossClassNames == {None, Str("PC")}
AcrossTitles == {"S", "T"}

\* Sheets of labels only: the cross-workbook check reads no data cell.
AcrossSheets ==
    UNION { { Grid(k, rl, cl, [p \in (2..sh[1]) \X (2..sh[2]) |-> None]) :
                k \in (IF sh = <<2, 2>> THEN Corners ELSE {None}),
                rl \in [1..(sh[1] - 1) -> AcrossRecordNames],
                cl \in [1..(sh[2] - 1) -> AcrossClassNames] } :
            sh \in AcrossShapes }

AcrossWorkbooks ==
    {OneSheet(t, g) : t \in AcrossTitles, g \in AcrossSheets}

\* The name of the k-th workbook handed to validate_input
CallName(k) == "f" \o ToString(k) \o ".xlsx"

\* validate_input(wb, name, ignore_blanks, result, context) on one more
\* workbook: any workbook for the first two calls, the content of an earlier
\* one under a new name for the calls after
AcrossCall ==
    /\ pc = "across"
    /\ Len(validated) < 2 + MaxAgain
    /\ \E wb \in (IF Len(validated) < 2 THEN AcrossWorkbooks
                  ELSE {store[n] : n \in DOMAIN store}) :
           LET name == CallName(Len(validated) + 1)
               v == validate_input(wb, name, ignore_blanks, inconsistencies,
                                   ctx)
           IN  /\ store' = (name :> wb) @@ store
               /\ input_files' = Append(input_files, name)
               /\ validated' = Append(validated, name)
               /\ inconsistencies' = v.result
               /\ ctx' = v.context
    /\ UNCHANGED <<output_exists, ignore_blanks, trim_class_names, pc, fi,
                   result, saved, out, raised, destination, merged,
                   container, array, next_begin, swaps,
                   order, calls, scan>>

InitAcross ==
    /\ store = <<>>
    /\ input_files = <<>>
    /\ output_exists = FALSE
    /\ ignore_blanks \in BOOLEAN
    /\ trim_class_names = FALSE
    /\ pc = "across"
    /\ fi = 1
    /\ inconsistencies = <<>>
    /\ ctx = <<>>
    /\ result = NewResult
    /\ saved = NoFile
    /\ out = NoFile
    /\ raised = "none"
    /\ destination = Degenerate
    /\ merged = <<>>
    /\ validated = <<>>
    /\ container = <<>>
    /\ array = <<>>
    /\ next_begin = 0
    /\ swaps = <<>>
    /\ order = {}
    /\ calls = <<>>
    /\ scan = <<>>

SpecAcross == InitAcross /\ [][AcrossCall]_vars

---------------------------------------------------------------------------
(* Properties of the cross-workbook check, under SpecAcross *)

\* The occurrences of (sheet name, row label, column label) combinations in
\* a workbook: a labelled row, not blank-classified when ignore_blanks, and
\* a labelled column
Combinations(wb, ignore) ==
    UNION { { [key |-> <<wb[k].title, Cell(wb[k].sheet, p[1], 1),
                        Cell(wb[k].sheet, 1, p[2])>>,
               row |-> p[1], col |-> p[2]] :
              p \in {q \in (1..max_row(wb[k].sheet))
                             \X (1..max_column(wb[k].sheet)) :
                        /\ Cell(wb[k].sheet, q[1], 1) # None
                        /\ Cell(wb[k].sheet, 1, q[2]) # None
                        /\ ~(ignore /\ is_blank(Cell(wb[k].sheet, q[1], 1)))} } :
            k \in 1..Len(wb) }

Occurrences(wb, ignore, key) == {o \in Combinations(wb, ignore) : o.key = key}

KeysOf(wb, ignore) == {o.key : o \in Combinations(wb, ignore)}

\* The first occurrence in reading order, row by row
FirstOccurrence(occ) ==
    CHOOSE o \in occ : \A q \in occ :
        o.row < q.row \/ (o.row = q.row /\ o.col <= q.col)

\* The origin of a combination among the workbooks files of the store st:
\* the first workbook that holds it, and the place of its first occurrence
OriginOf(st, files, ignore, key) ==
    LET k == CHOOSE k \in 1..Len(files) :
                 /\ Occurrences(st[files[k]], ignore, key) # {}
                 /\ \A m \in 1..(k - 1) :
                        Occurrences(st[files[m]], ignore, key) = {}
        o == FirstOccurrence(Occurrences(st[files[k]], ignore, key))
    IN  <<files[k], o.row, o.col>>

SeenIn(st, files, ignore, key) ==
    \E k \in 1..Len(files) : Occurrences(st[files[k]], ignore, key) # {}

\* C11: over a sequence of validate_input calls that thread one context, each
\* occurrence in a workbook of a combination first seen in another workbook
\* gets exactly two findings, one at the first-seen origin and one at the
\* occurrence, a combination first seen in the same workbook gets none, and
\* the context holds the first-seen origin of every combination.
C11_CrossWorkbookDuplicates ==
    [][Len(validated') = Len(validated) + 1 =>
        LET name == validated'[Len(validated')]
            wb == store'[name]
            new == SubSeq(inconsistencies', Len(inconsistencies) + 1,
                          Len(inconsistencies'))
            seen == UNION {KeysOf(store'[n], ignore_blanks) :
                              n \in Range(validated')}
        IN  /\ \A key \in KeysOf(wb, ignore_blanks) :
                 LET occ == Occurrences(wb, ignore_blanks, key)
                     found == {i \in 1..Len(new) :
                                  /\ new[i].message = MsgAcross(key[3], key[2])
                                  /\ new[i].sheet = key[1]}
                     origin == OriginOf(store', validated, ignore_blanks, key)
                 IN  IF SeenIn(store', validated, ignore_blanks, key)
                     THEN /\ Cardinality(found) = 2 * Cardinality(occ)
                          /\ Cardinality({i \in found :
                                 <<new[i].workbook, new[i].row, new[i].col>>
                                     = origin}) = Cardinality(occ)
                          /\ \A o \in occ :
                                 Cardinality({i \in found :
                                     <<new[i].workbook, new[i].row, new[i].col>>
                                         = <<name, o.row, o.col>>}) = 1
                     ELSE found = {}
            /\ DOMAIN ctx' = seen
            /\ \A key \in seen :
                   ctx'[key] = OriginOf(store', validated', ignore_blanks, key)
      ]_vars

\* A third workbook repeats a combination of the first and of the second,
\* and the findings name the first.
C11_Witness ==
    /\ Len(validated) = 3
    /\ \E key \in KeysOf(store[validated[3]], ignore_blanks) :
           /\ key \in KeysOf(store[validated[1]], ignore_blanks)
           /\ key \in KeysOf(store[validated[2]], ignore_blanks)
           /\ ctx[key][1] = validated[1]
           /\ Cardinality({i \in Findings :
                  /\ inconsistencies[i].message = MsgAcross(key[3], key[2])
                  /\ inconsistencies[i].workbook = validated[1]}) >= 2

---------------------------------------------------------------------------
(* Sequences of clear_found_values calls *)

\* The destinations: no cell, one labelled cell, or two records by two
\* classes, with any values
ClearDestinationValues == {None, Num(100), Str("x")}

ClearDestinations ==
    {Degenerate}
    \cup { Grid(None, <<Str("S1")>>, <<Str("PC")>>, d) :
             d \in [{<<2, 2>>} -> ClearDestinationValues] }
    \cup { Grid(None, <<Str("S1"), Str("Blank 1")>>,
                <<Str("PC"), Str("PE")>>, d) :
             d \in [(2..3) \X (2..3) -> ClearDestinationValues] }

ClearRecords == {None, Str("S1"), Str("S3"), Str("Blank 1")}
ClearClasses == {None, Str("PC"), Str(" PE"), Str("PA")}
\* 105 is within the tolerance of 100, 200 is not
ClearValues == {None, Num(100), Num(105), Num(200), Str("x"), Str("y")}

\* The sources: one cell with any value, or two cells with the values of
\* the destinations
ClearSourceSheets ==
    { Grid(None, rl, cl, d) :
        rl \in [1..1 -> ClearRecords], cl \in [1..1 -> ClearClasses],
        d \in [{<<2, 2>>} -> ClearValues] }
    \cup { Grid(None, rl, cl, d) :
             rl \in [1..1 -> ClearRecords], cl \in [1..2 -> ClearClasses],
             d \in [{2} \X (2..3) -> ClearDestinationValues] }
    \cup { Grid(None, rl, cl, d) :
             rl \in [1..2 -> ClearRecords], cl \in [1..1 -> ClearClasses],
             d \in [(2..3) \X {2} -> ClearDestinationValues] }

ClearSourcesIgnoring == {g \in ClearSourceSheets : IsValid(g, TRUE)}
ClearSourcesStrict == {g \in ClearSourceSheets : IsValid(g, FALSE)}

\* clear_found_values(destination, source, ignore_blanks, trim_class_names):
\* the first call with any valid source, the calls after with the same
\* source again; a call that raises ends the sequence
ClearCall ==
    /\ pc = "clearing"
    /\ raised = "none"
    /\ Len(merged) < 1 + MaxAgain
    /\ \E source \in (IF merged # <<>> THEN Range(merged)
                      ELSE IF ignore_blanks THEN ClearSourcesIgnoring
                      ELSE ClearSourcesStrict) :
           LET c == clear_found_values(destination, source, ignore_blanks,
                                       trim_class_names)
           IN  /\ destination' = c.destination
               /\ raised' = c.raised
               /\ merged' = Append(merged, source)
    /\ UNCHANGED <<store, input_files, output_exists, ignore_blanks,
                   trim_class_names, pc, fi, inconsistencies, ctx, result,
                   saved, out, validated,
                   container, array, next_begin, swaps,
                   order, calls, scan>>

InitClear ==
    /\ store = <<>>
    /\ input_files = <<>>
    /\ output_exists = FALSE
    /\ ignore_blanks \in BOOLEAN
    /\ trim_class_names \in BOOLEAN
    /\ pc = "clearing"
    /\ fi = 1
    /\ inconsistencies = <<>>
    /\ ctx = <<>>
    /\ result = NewResult
    /\ saved = NoFile
    /\ out = NoFile
    /\ raised = "none"
    /\ destination \in ClearDestinations
    /\ merged = <<>>
    /\ validated = <<>>
    /\ container = <<>>
    /\ array = <<>>
    /\ next_begin = 0
    /\ swaps = <<>>
    /\ order = {}
    /\ calls = <<>>
    /\ scan = <<>>

\* The check that follows the calls: has_empty_data_set of the destination
EmptyCheck ==
    /\ pc = "clearing"
    /\ raised = "none"
    /\ pc' = "checked"
    /\ raised' = IF has_empty_data_set(destination) THEN "none"
                 ELSE "ConsistencyError: not empty"
    /\ UNCHANGED <<store, input_files, output_exists, ignore_blanks,
                   trim_class_names, fi, inconsistencies, ctx, result,
                   saved, out, destination, merged, validated,
                   container, array, next_begin, swaps,
                   order, calls, scan>>

NextClear == ClearCall \/ EmptyCheck

SpecClear == InitClear /\ [][NextClear]_vars

---------------------------------------------------------------------------
(* Properties of clear_found_values, under SpecClear *)

Clearing == Len(merged') = Len(merged) + 1

\* The source of the call that has just been made
Cleared == merged'[Len(merged')]

\* The non-empty data cells of the source that verification reads
SourceData(source, ignore) == DataIn(source, MergedRows(source, ignore))

\* The column label of a source cell as it is looked up
LookedUp(source, c, trim) ==
    IF trim THEN trim_class_name(Cell(source, 1, c)) ELSE Cell(source, 1, c)

\* The cell p of the source has its row label and its column label in dest
Resolves(dest, source, p, trim) ==
    /\ Cell(source, p[1], 1) \in RowLabels(dest)
    /\ LookedUp(source, p[2], trim) \in ColumnLabels(dest)

NotFound == "ConsistencyError: not found"

\* C12: clear_found_values raises the 'not found' ConsistencyError exactly
\* when a non-empty source cell of a labelled row (not blank-classified when
\* ignore_blanks) has a row label or a (trimmed, when trim_class_names)
\* column label that the destination lacks; a label without a non-empty
\* data cell causes no failure.
C12_NotFoundExactly ==
    [][Clearing =>
        (raised' = NotFound
         <=> \E p \in SourceData(Cleared, ignore_blanks) :
                 ~Resolves(destination, Cleared, p, trim_class_names))
      ]_vars

\* One direction of C12: a non-empty source cell with a label that the
\* destination lacks makes the call raise 'not found'.
C12_AbsentRaises ==
    [][Clearing =>
        ((\E p \in SourceData(Cleared, ignore_blanks) :
              ~Resolves(destination, Cleared, p, trim_class_names))
         => raised' = NotFound)
      ]_vars

\* The source has no non-empty data cell that verification reads, and no
\* call has raised.
C12_NoDataNoFailure ==
    (merged # <<>> /\ SourceData(merged[1], ignore_blanks) = {})
        => raised = "none"

\* Every label of the source, with data or without, is in dest.
AllLabelsResolve(dest, source, ignore, trim) ==
    /\ \A r \in MergedRows(source, ignore) :
           Cell(source, r, 1) \in RowLabels(dest)
    /\ \A c \in 2..max_column(source) :
           LookedUp(source, c, trim) \in ColumnLabels(dest) \cup {None}

\* The destination cell that the source cell p is compared with
Matched(dest, source, p, trim) ==
    LET r == CHOOSE r \in 2..max_row(dest) :
                 Cell(dest, r, 1) = Cell(source, p[1], 1)
        c == CHOOSE c \in 2..max_column(dest) :
                 Cell(dest, 1, c) = LookedUp(source, p[2], trim)
    IN  <<r, c>>

\* Two values differ: numbers beyond the tolerance of 1e-12 (10 units of
\* 1e-13, the relative part being smaller for the values used), other
\* values when they are not the same
ValuesDiffer(a, b) ==
    IF IsNum(a) /\ IsNum(b) THEN Abs(a.n - b.n) > 10 ELSE a # b

Differs == "ConsistencyError: differs"

\* C13: when the labels of the non-empty source cells resolve,
\* clear_found_values raises a ConsistencyError if a matched destination
\* cell is empty or holds a different value (for non-numeric values: any
\* difference); otherwise, equal string values included, it empties the
\* matched destination cells and returns; it never fails with another
\* error.
C13_ValueCheck ==
    [][(Clearing /\ AllLabelsResolve(destination, Cleared, ignore_blanks,
                                     trim_class_names)) =>
        LET data == SourceData(Cleared, ignore_blanks)
            at(p) == Matched(destination, Cleared, p, trim_class_names)
            bad == {p \in data :
                       \/ Cell(destination, at(p)[1], at(p)[2]) = None
                       \/ ValuesDiffer(Cell(Cleared, p[1], p[2]),
                              Cell(destination, at(p)[1], at(p)[2]))}
        IN  IF bad # {}
            THEN raised' \in {NotFound, Differs}
            ELSE /\ raised' = "none"
                 /\ \A p \in data :
                        Cell(destination', at(p)[1], at(p)[2]) = None
      ]_vars

\* The statement of C13 for calls in which no string value is compared
C13_OnNumbers ==
    [][(/\ Clearing
        /\ AllLabelsResolve(destination, Cleared, ignore_blanks,
                            trim_class_names)
        /\ \A p \in SourceData(Cleared, ignore_blanks) :
               LET q == Matched(destination, Cleared, p, trim_class_names)
               IN  /\ IsNum(Cell(Cleared, p[1], p[2]))
                   /\ ~IsStr(Cell(destination, q[1], q[2]))) =>
        LET data == SourceData(Cleared, ignore_blanks)
            at(p) == Matched(destination, Cleared, p, trim_class_names)
            bad == {p \in data :
                       \/ Cell(destination, at(p)[1], at(p)[2]) = None
                       \/ ValuesDiffer(Cell(Cleared, p[1], p[2]),
                              Cell(destination, at(p)[1], at(p)[2]))}
        IN  IF bad # {}
            THEN raised' \in {NotFound, Differs}
            ELSE /\ raised' = "none"
                 /\ \A p \in data :
                        Cell(destination', at(p)[1], at(p)[2]) = None
      ]_vars

\* No call ends with an error that is not a ConsistencyError.
C13_OnlyConsistencyError ==
    pc = "clearing" => raised \in {"none", NotFound, Differs}

----------------------------------------------------------------------------
(* has_empty_data_set, under SpecClear *)

CheckingEmpty == pc = "clearing" /\ pc' = "checked"

\* The values stored in the sheet outside of its first row and column
DataValues(sheet) ==
    {sheet[r][c] : r \in 2..Len(sheet), c \in 2..Len(sheet[1])}

\* C14: has_empty_data_set(sheet) is true if and only if every cell with
\* row >= 2 and column >= 2 is empty; the labels in row 1 and column 1 do
\* not influence the result, and a degenerate sheet yields true.
C14_EmptyDataSet ==
    [][CheckingEmpty =>
        /\ (raised' = "none") <=> (DataValues(destination) \subseteq {None})
        /\ destination = Degenerate => raised' = "none"
      ]_vars

\* A destination with labels passed the check after a call cleared it.
C14_Witness ==
    /\ pc = "checked"
    /\ raised = "none"
    /\ merged # <<>>
    /\ RowLabels(destination) # {}
    /\ ColumnLabels(destination) # {}

\* A destination with data left over failed the check.
C14_NotEmpty ==
    /\ pc = "checked"
    /\ raised = "ConsistencyError: not empty"
    /\ merged # <<>>


----------------------------------------------------------------------------
(* utils.quick_sort and utils.selection_sort_step on a list of keys.  The
   code counts positions from 0: position p of the list is container[p + 1]. *)

\* less(arr, i, j): arr[i] < arr[j]
list_less(arr, i, j) == arr[i + 1] < arr[j + 1]

\* swap(arr, i, j): arr[i], arr[j] = arr[j], arr[i]
list_swap(arr, i, j) ==
    [arr EXCEPT ![i + 1] = arr[j + 1], ![j + 1] = arr[i + 1]]

\* Variant that returns the bounds without a scan
Partition3Skipped(arr, last, lt, i, gt) ==
    [container |-> arr, lt |-> lt, gt |-> gt]

\* partition3 of quick_sort: the loop `while i <= gt`, the pivot being the
\* position `last` whatever key the swaps have put there
RECURSIVE partition3(_, _, _, _, _)
partition3(arr, last, lt, i, gt) ==
    IF i > gt THEN [container |-> arr, lt |-> lt, gt |-> gt]
    ELSE IF list_less(arr, i, last)
    THEN partition3(list_swap(arr, lt, i), last, lt + 1, i + 1, gt)
    ELSE IF list_less(arr, last, i)
    THEN partition3(list_swap(arr, i, gt), last, lt, i, gt - 1)
    ELSE partition3(arr, last, lt, i + 1, gt)

RECURSIVE quick_sort(_, _, _)
quick_sort(arr, end, first) ==
    LET last == end - 1
    IN  IF first < last
        THEN LET p == partition3(arr, last, first, first, last)
             IN  quick_sort(quick_sort(p.container, p.lt, first),
                            end, p.gt + 1)
        ELSE arr

\* Variant of find_min that stops one position early
RECURSIVE ListFindMinBeforeLast(_, _, _, _)
ListFindMinBeforeLast(arr, i, end, res) ==
    IF i >= end - 1 THEN res
    ELSE ListFindMinBeforeLast(arr, i + 1, end,
                               IF list_less(arr, i, res) THEN i ELSE res)

\* find_min of selection_sort_step: `for i in range(begin+1, end)`
RECURSIVE list_find_min(_, _, _, _)
list_find_min(arr, i, end, res) ==
    IF i >= end THEN res
    ELSE list_find_min(arr, i + 1, end,
                       IF list_less(arr, i, res) THEN i ELSE res)

list_selection_sort_step(arr, end, first) ==
    list_swap(arr, first, list_find_min(arr, first + 1, end, first))

----------------------------------------------------------------------------
(* Sorting a list: quick_sort at once, or selection_sort_step for
   begin = 0 .. len-2 *)

MaxLen == 4
MaxKey == 3

Keys == 0..MaxKey

Arrays == UNION {[1..n -> Keys] : n \in 0..MaxLen}

\* quick_sort(copy, less=less, swap=swap, end=len(copy))
QuickSort ==
    /\ pc = "unsorted"
    /\ container' = quick_sort(container, Len(container), 0)
    /\ pc' = "quick_sorted"
    /\ UNCHANGED <<store, input_files, output_exists, ignore_blanks,
                   trim_class_names, fi, inconsistencies, ctx, result,
                   saved, out, raised, destination, merged, validated,
                   array, next_begin, swaps,
                   order, calls, scan>>

\* One round of `for i in range(len(array)-1):
\* selection_sort_step(array, less=less, swap=swap, end=len(array), begin=i)`
SelectionSortStep ==
    /\ pc \in {"unsorted", "selecting"}
    /\ next_begin < Len(container) - 1
    /\ container' = list_selection_sort_step(container, Len(container),
                                             next_begin)
    /\ next_begin' = next_begin + 1
    /\ pc' = "selecting"
    /\ UNCHANGED <<store, input_files, output_exists, ignore_blanks,
                   trim_class_names, fi, inconsistencies, ctx, result,
                   saved, out, raised, destination, merged, validated,
                   array, swaps,
                   order, calls, scan>>

InitSort ==
    /\ store = <<>>
    /\ input_files = <<>>
    /\ output_exists = FALSE
    /\ ignore_blanks = FALSE
    /\ trim_class_names = FALSE
    /\ pc = "unsorted"
    /\ fi = 1
    /\ inconsistencies = <<>>
    /\ ctx = <<>>
    /\ result = NewResult
    /\ saved = NoFile
    /\ out = NoFile
    /\ raised = "none"
    /\ destination = Degenerate
    /\ merged = <<>>
    /\ validated = <<>>
    /\ array \in Arrays
    /\ container = array
    /\ next_begin = 0
    /\ swaps = <<>>
    /\ order = {}
    /\ calls = <<>>
    /\ scan = <<>>

NextSort == QuickSort \/ SelectionSortStep

SpecSort == InitSort /\ [][NextSort]_vars

----------------------------------------------------------------------------
(* Properties of the sort functions, under SpecSort *)

\* How often key k is in the list
Count(arr, k) == Cardinality({p \in DOMAIN arr : arr[p] = k})

Permutation(a, b) ==
    /\ Len(a) = Len(b)
    /\ \A k \in Keys : Count(a, k) = Count(b, k)

\* The positions 0 .. n-1 hold their keys in ascending order.
Ascending(arr, n) == \A p, q \in 1..n : p < q => arr[p] <= arr[q]

\* The list is the ascending sort of the list `of`.
SortOf(arr, of) == Permutation(arr, of) /\ Ascending(arr, Len(arr))

\* C16: for every finite sequence of keys, duplicate keys included,
\* quick_sort(container, less, swap, end=len) leaves the container equal to
\* the ascending sort of the input, a permutation of the input with the
\* count of every key preserved.
C16_QuickSortSorts == pc = "quick_sorted" => SortOf(container, array)

\* quick_sort leaves a permutation of the input.
C16_Permutation == pc = "quick_sorted" => Permutation(container, array)

Distinct(arr) == \A p, q \in DOMAIN arr : arr[p] = arr[q] => p = q

\* The statement of C16 for sequences without duplicate keys
C16_OnDistinctKeys == Distinct(array) => C16_QuickSortSorts

\* quick_sort has run on a sequence that holds a key twice.
C16_DuplicateRun ==
    pc = "quick_sorted" /\ ~Distinct(array) /\ Len(array) = MaxLen

SelectionStepDone == next_begin' = next_begin + 1

\* C17: calling selection_sort_step with end = len once for each
\* begin = 0 .. len-2 in increasing order leaves the container equal to the
\* ascending sort; after the call with begin = b the positions 0..b hold the
\* b+1 smallest keys in ascending order and the container is a permutation
\* of the input.
C17_SelectionSort ==
    [][SelectionStepDone =>
        /\ Permutation(container', array)
        /\ Ascending(container', next_begin')
        /\ \A p \in 1..next_begin' : \A q \in next_begin' + 1..Len(array) :
               container'[p] <= container'[q]
        /\ next_begin' = Len(array) - 1 => SortOf(container', array)
      ]_vars

\* The last call has been made on a sequence of the greatest length that
\* was not in ascending order and holds a key twice.
C17_Witness ==
    /\ pc = "selecting"
    /\ Len(array) = MaxLen
    /\ next_begin = Len(array) - 1
    /\ ~Ascending(array, Len(array))
    /\ ~Distinct(array)
    /\ SortOf(container, array)

----------------------------------------------------------------------------
(* Calls of column_swap on one sheet *)

MaxSwaps == 2
MaxSwapIndex == 4

SwapIndices == 0..MaxSwapIndex

SwapSheets ==
    { Degenerate,
      << <<Str("x")>> >>,
      << <<None, Str("PE"), Str("PC")>> >>,
      << <<None>>, <<Str("S1")>>, <<Str("S2")>> >>,
      << <<None, Str("PC")>>, <<Str("S1"), Num(100)>> >>,
      << <<None, Str("PE"), Str("PC")>>,
         <<Str("S1"), Num(100), None>> >>,
      << <<None, Str("PE"), Str("PC")>>,
         <<Str("S1"), Num(100), Num(200)>>,
         <<Str("S2"), None, Num(300)>> >>,
      << <<Str("x"), Str("PE"), Str("PC")>>,
         <<Str("S1"), Num(100), Num(100)>>,
         <<Str("S2"), Str("y"), Num(300)>> >> }

SwapCall ==
    /\ pc = "swapping"
    /\ raised = "none"
    /\ Len(swaps) < MaxSwaps
    /\ \E i, j \in SwapIndices :
           /\ raised' = column_swap_raises(destination, i, j)
           /\ destination' = IF raised' = "none"
                             THEN column_swap(destination, i, j)
                             ELSE destination
           /\ swaps' = Append(swaps, [i |-> i, j |-> j,
                                      sheet |-> destination])
    /\ UNCHANGED <<store, input_files, output_exists, ignore_blanks,
                   trim_class_names, pc, fi, inconsistencies, ctx, result,
                   saved, out, merged, validated, container, array,
                   next_begin,
                   order, calls, scan>>

InitSwap ==
    /\ store = <<>>
    /\ input_files = <<>>
    /\ output_exists = FALSE
    /\ ignore_blanks = FALSE
    /\ trim_class_names = FALSE
    /\ pc = "swapping"
    /\ fi = 1
    /\ inconsistencies = <<>>
    /\ ctx = <<>>
    /\ result = NewResult
    /\ saved = NoFile
    /\ out = NoFile
    /\ raised = "none"
    /\ destination \in SwapSheets
    /\ merged = <<>>
    /\ validated = <<>>
    /\ container = <<>>
    /\ array = <<>>
    /\ next_begin = 0
    /\ swaps = <<>>
    /\ order = {}
    /\ calls = <<>>
    /\ scan = <<>>

SpecSwap == InitSwap /\ [][SwapCall]_vars

----------------------------------------------------------------------------
(* Properties of column_swap, under SpecSwap *)

Swapping == Len(swaps') = Len(swaps) + 1

\* The call made by a Swapping step
Swapped == swaps'[Len(swaps')]

\* C19: column_swap(sheet, i, j) raises InvalidCellIndex when i < 1 or
\* j < 1, on any sheet, and when i or j exceeds max_column on a sheet that is
\* not degenerate; on a degenerate sheet (one empty cell) with i >= 1 and
\* j >= 1 it returns without error; in each of these cases the content of
\* the sheet is left unchanged.
C19_InvalidIndex ==
    [][Swapping =>
        LET i == Swapped.i
            j == Swapped.j
            low == i < 1 \/ j < 1
            high == /\ destination # Degenerate
                    /\ i > Len(destination[1]) \/ j > Len(destination[1])
            empty == destination = Degenerate /\ i >= 1 /\ j >= 1
        IN  /\ (low \/ high) => raised' = "InvalidCellIndex"
            /\ empty => raised' = "none"
            /\ (low \/ high \/ empty) => destination' = destination
      ]_vars

\* A call on a sheet with data has raised for an index beyond max_column.
C19_Witness ==
    /\ swaps # <<>>
    /\ raised = "InvalidCellIndex"
    /\ LET call == swaps[Len(swaps)]
       IN  /\ Len(call.sheet) > 1
           /\ call.i >= 1
           /\ call.j > Len(call.sheet[1])
           /\ destination = call.sheet

\* A call on the degenerate sheet with indices beyond 1 has returned.
C19_EmptySheetCall ==
    /\ swaps # <<>>
    /\ raised = "none"
    /\ swaps[Len(swaps)].sheet = Degenerate
    /\ swaps[Len(swaps)].j > 1

\* C20: column_swap(sheet, i, j) with 1 <= i, j <= max_column exchanges the
\* values of columns i and j in every row (row 1 included, column 1 allowed)
\* and leaves every other cell unchanged; column_swap(i, j) and
\* column_swap(j, i) give the same sheet, and the same swap applied twice
\* restores the original sheet.
C20_Exchange ==
    [][(/\ Swapping
        /\ Swapped.i \in 1..Len(destination[1])
        /\ Swapped.j \in 1..Len(destination[1])) =>
        LET i == Swapped.i
            j == Swapped.j
        IN  /\ raised' = "none"
            /\ Len(destination') = Len(destination)
            /\ \A r \in 1..Len(destination) :
                   /\ Len(destination'[r]) = Len(destination[r])
                   /\ destination'[r][i] = destination[r][j]
                   /\ destination'[r][j] = destination[r][i]
                   /\ \A c \in 1..Len(destination[r]) \ {i, j} :
                          destination'[r][c] = destination[r][c]
            /\ column_swap_raises(destination, j, i) = "none"
            /\ column_swap(destination, j, i) = destination'
            /\ (/\ swaps # <<>>
                /\ {swaps[Len(swaps)].i, swaps[Len(swaps)].j} = {i, j})
                   => destination' = swaps[Len(swaps)].sheet
      ]_vars

\* The same swap of column 1 with another column has been applied twice to
\* a sheet on which it makes a difference.
C20_Witness ==
    /\ Len(swaps) = 2
    /\ raised = "none"
    /\ swaps[1].i = 1
    /\ swaps[1].j > 1
    /\ swaps[2].i = swaps[1].i
    /\ swaps[2].j = swaps[1].j
    /\ Len(swaps[1].sheet) > 1
    /\ swaps[2].sheet # swaps[1].sheet
    /\ destination = swaps[1].sheet

----------------------------------------------------------------------------
(* Properties of the log and of the stages of process, under Spec *)

\* The findings validate_input gives for input file k on its own
FindingsAlone(k) ==
    validate_input(store[input_files[k]], input_files[k], ignore_blanks,
                   <<>>, <<>>).result

\* The rows of the log sheet of a workbook file below the five header rows
LogRows(file) == SubSeq(file[1].sheet, 6, Len(file[1].sheet))

\* C21: if validation produces findings, process appends one log row per
\* finding, for every finding of every input workbook (validation stops
\* neither at the first finding nor at the first invalid workbook), then
\* persists the output and raises ConsistencyError; the persisted output
\* holds the log sheet only.
C21_FindingsLogged ==
    /\ (inconsistencies # <<>> /\ pc # "done") => saved = NoFile
    /\ (inconsistencies # <<>> /\ pc = "done") =>
        /\ raised = "ConsistencyError: invalid input"
        /\ validated = input_files
        /\ \A k \in 1..Len(input_files) :
               Range(FindingsAlone(k)) \subseteq Range(inconsistencies)
        /\ Len(saved) = 1
        /\ saved[1].title = LogTitle
        /\ Len(LogRows(saved)) = Len(inconsistencies)
        /\ \A k \in 1..Len(inconsistencies) :
               LET c == inconsistencies[k]
               IN  LogRows(saved)[k] =
                       << Str(c.workbook), Str(c.sheet),
                          Str("[R" \o ToString(c.row) \o "C"
                              \o ToString(c.col) \o "]: " \o c.message) >>

\* A run over two invalid workbooks has ended with every finding of both
\* in the persisted log.
C21_Witness ==
    /\ pc = "done"
    /\ raised = "ConsistencyError: invalid input"
    /\ Len(input_files) = 2
    /\ input_files[1] # input_files[2]
    /\ FindingsAlone(1) # <<>>
    /\ FindingsAlone(2) # <<>>
    /\ Len(LogRows(saved)) >= 2

\* One log row per input sheet, in the order process reads the sheets, with
\* the same status in each
RECURSIVE StatusRows(_, _)
StatusRows(k, status) ==
    IF k > Len(input_files) THEN <<>>
    ELSE [j \in 1..Len(store[input_files[k]]) |->
             << Str(input_files[k]), Str(store[input_files[k]][j].title),
                Str(status) >>]
         \o StatusRows(k + 1, status)

\* The output has been persisted by the save stage and the run has not
\* succeeded (yet).
SavedUnverified ==
    saved # NoFile /\ inconsistencies = <<>> /\ raised # "Success"

\* C22: process writes the status 'OK' only after every clear_found_values
\* call and every has_empty_data_set check has passed: on success every
\* status row of the finally persisted log reads 'OK', and an output
\* persisted by a run that fails verification holds no 'OK' status, its
\* rows still reading 'Waiting for validation!'.
C22_OkAfterVerification ==
    /\ raised = "Success" => LogRows(saved) = StatusRows(1, "OK")
    /\ SavedUnverified =>
           LogRows(saved) = StatusRows(1, "Waiting for validation!")

\* The statement of C22 for runs in which no input sheet has the title of
\* the log sheet
C22_OnOwnDestinations == OwnDestinations => C22_OkAfterVerification

\* No status 'OK' is in a persisted log before the run has succeeded.
C22_NoEarlyOk ==
    SavedUnverified =>
        \A r \in 1..Len(saved[1].sheet) : saved[1].sheet[r][3] # Str("OK")

\* A run of two input files has failed verification after the save stage.
C22_FailedRun ==
    /\ pc = "done"
    /\ SavedUnverified
    /\ OwnDestinations
    /\ Len(LogRows(saved)) >= 2

\* A run of two input files has succeeded.
C22_SucceededRun ==
    /\ raised = "Success"
    /\ OwnDestinations
    /\ Len(LogRows(saved)) >= 2

\* A path string is in the list of input files more than once.
RepeatedPath == Cardinality(Range(input_files)) < Len(input_files)

\* C23: process raises InvalidFile when the output path exists or when the
\* same input path string is listed more than once, before any input
\* workbook is opened, validated or merged and without persisting anything;
\* two different spellings of one file are not detected as duplicates.
C23_InvalidFile ==
    pc # "check" =>
        /\ (output_exists \/ RepeatedPath) =>
               /\ raised = "InvalidFile"
               /\ pc = "done"
               /\ validated = <<>>
               /\ merged = <<>>
               /\ result = NewResult
               /\ saved = NoFile
        /\ raised = "InvalidFile" => (output_exists \/ RepeatedPath)

\* A run with the same path string twice has ended with InvalidFile.
C23_Witness ==
    /\ pc = "done"
    /\ raised = "InvalidFile"
    /\ ~output_exists
    /\ Len(input_files) = 2
    /\ input_files[1] = input_files[2]

\* A run over two spellings of one file has passed the check of the paths.
C23_TwoSpellings ==
    /\ pc # "check"
    /\ Len(input_files) = 2
    /\ input_files[1] # input_files[2]
    /\ Resolved(input_files[1]) = Resolved(input_files[2])
    /\ raised # "InvalidFile"
    /\ validated # <<>>

----------------------------------------------------------------------------
(* Further properties of merge, under SpecMerge *)

\* A sheet with class names and without a labelled row
HeaderOnly(sheet) ==
    /\ ColumnLabels(sheet) \ {None} # {}
    /\ RowLabels(sheet) \subseteq {None}

\* C24: merging a header-only source (column labels, no labelled data row)
\* adds no row to the destination and adds one new destination column for
\* each of its non-empty column labels that the destination does not have
\* yet, leaving every existing destination cell unchanged.
C24_HeaderOnlySource ==
    [][(Merging /\ HeaderOnly(merged'[Len(merged')])) =>
        LET source == merged'[Len(merged')]
            new == (ColumnLabels(source) \ {None}) \ ColumnLabels(destination)
            added == (Len(destination[1]) + 1)..Len(destination'[1])
        IN  /\ Len(destination') = Len(destination)
            /\ Len(destination'[1]) = Len(destination[1]) + Cardinality(new)
            /\ {destination'[1][c] : c \in added} = new
            /\ \A r \in 2..Len(destination') : \A c \in added :
                   destination'[r][c] = None
            /\ \A r \in 1..Len(destination) : \A c \in 1..Len(destination[r]) :
                   destination'[r][c] = destination[r][c]
      ]_vars

\* A header-only source with a class name the destination had and one it
\* lacked has been merged into a destination with data.
C24_Witness ==
    /\ Len(merged) = 2
    /\ HeaderOnly(merged[2])
    /\ Triples(merged[1]) # {}
    /\ ColumnLabels(merged[2]) \cap ColumnLabels(merged[1]) # {}
    /\ (ColumnLabels(merged[2]) \ {None}) \ ColumnLabels(merged[1]) # {}
    /\ max_column(destination) = max_column(merged[1]) + 1
    /\ max_row(destination) = max_row(merged[1])

----------------------------------------------------------------------------
(* quick_sort step by step: the iterations of partition3 and the recursive
   calls, depth first, for a `less` given by a strict order on the keys *)

MaxScanLen == 4

OrderKeys == {0, 1, 2}

\* The strict orders on the keys: irreflexive and transitive relations
StrictOrders ==
    {R \in SUBSET (OrderKeys \X OrderKeys) :
        /\ \A a \in OrderKeys : <<a, a>> \notin R
        /\ \A a, b, c \in OrderKeys :
               (<<a, b>> \in R /\ <<b, c>> \in R) => <<a, c>> \in R}

ScanArrays == UNION {[1..n -> OrderKeys] : n \in 0..MaxScanLen}

NoScan == <<>>

\* less(container, i, j) for the order of the run
order_less(arr, i, j) == <<arr[i + 1], arr[j + 1]>> \in order

\* `quick_sort(container, less, swap, end, begin)` is entered:
\* `if begin < last:` partition3 starts, otherwise the call returns
QuickCall ==
    /\ pc = "quick"
    /\ scan = NoScan
    /\ calls # <<>>
    /\ LET call == Head(calls)
           last == call.end - 1
       IN  scan' = IF call.first < last
                   THEN [first |-> call.first, end |-> call.end,
                         last |-> last, lt |-> call.first,
                         i |-> call.first, gt |-> last]
                   ELSE NoScan
    /\ calls' = Tail(calls)
    /\ UNCHANGED <<store, input_files, output_exists, ignore_blanks,
                   trim_class_names, pc, fi, inconsistencies, ctx, result,
                   saved, out, raised, destination, merged, validated,
                   container, array, next_begin, swaps, order>>

\* Variant whose exchange with position gt leaves gt as it is
ScanStepKeepsGt ==
    /\ pc = "quick"
    /\ scan # NoScan
    /\ scan.i <= scan.gt
    /\ IF order_less(container, scan.i, scan.last)
       THEN /\ container' = list_swap(container, scan.lt, scan.i)
            /\ scan' = [scan EXCEPT !.lt = @ + 1, !.i = @ + 1]
       ELSE IF order_less(container, scan.last, scan.i)
       THEN /\ container' = list_swap(container, scan.i, scan.gt)
            /\ scan' = scan
       ELSE /\ container' = container
            /\ scan' = [scan EXCEPT !.i = @ + 1]
    /\ UNCHANGED <<store, input_files, output_exists, ignore_blanks,
                   trim_class_names, pc, fi, inconsistencies, ctx, result,
                   saved, out, raised, destination, merged, validated,
                   array, next_begin, swaps, order, calls>>

\* One iteration of `while i <= gt:` of partition3
ScanStep ==
    /\ pc = "quick"
    /\ scan # NoScan
    /\ scan.i <= scan.gt
    /\ IF order_less(container, scan.i, scan.last)
       THEN /\ container' = list_swap(container, scan.lt, scan.i)
            /\ scan' = [scan EXCEPT !.lt = @ + 1, !.i = @ + 1]
       ELSE IF order_less(container, scan.last, scan.i)
       THEN /\ container' = list_swap(container, scan.i, scan.gt)
            /\ scan' = [scan EXCEPT !.gt = @ - 1]
       ELSE /\ container' = container
            /\ scan' = [scan EXCEPT !.i = @ + 1]
    /\ UNCHANGED <<store, input_files, output_exists, ignore_blanks,
                   trim_class_names, pc, fi, inconsistencies, ctx, result,
                   saved, out, raised, destination, merged, validated,
                   array, next_begin, swaps, order, calls>>

\* `return lt, gt` of partition3 and the two recursive calls
\* quick_sort(..., lt, begin) and quick_sort(..., end, gt + 1), the first of
\* which runs to its end before the second
ScanReturn ==
    /\ pc = "quick"
    /\ scan # NoScan
    /\ scan.i > scan.gt
    /\ calls' = << [first |-> scan.first, end |-> scan.lt],
                   [first |-> scan.gt + 1, end |-> scan.end] >> \o calls
    /\ scan' = NoScan
    /\ UNCHANGED <<store, input_files, output_exists, ignore_blanks,
                   trim_class_names, pc, fi, inconsistencies, ctx, result,
                   saved, out, raised, destination, merged, validated,
                   container, array, next_begin, swaps, order>>

\* The outermost call returns the container.
QuickReturn ==
    /\ pc = "quick"
    /\ scan = NoScan
    /\ calls = <<>>
    /\ pc' = "quick_returned"
    /\ UNCHANGED <<store, input_files, output_exists, ignore_blanks,
                   trim_class_names, fi, inconsistencies, ctx, result,
                   saved, out, raised, destination, merged, validated,
                   container, array, next_begin, swaps, order, calls, scan>>

InitQuick ==
    /\ store = <<>>
    /\ input_files = <<>>
    /\ output_exists = FALSE
    /\ ignore_blanks = FALSE
    /\ trim_class_names = FALSE
    /\ pc = "quick"
    /\ fi = 1
    /\ inconsistencies = <<>>
    /\ ctx = <<>>
    /\ result = NewResult
    /\ saved = NoFile
    /\ out = NoFile
    /\ raised = "none"
    /\ destination = Degenerate
    /\ merged = <<>>
    /\ validated = <<>>
    /\ array \in ScanArrays
    /\ container = array
    /\ next_begin = 0
    /\ swaps = <<>>
    /\ order \in StrictOrders
    /\ calls = << [first |-> 0, end |-> Len(array)] >>
    /\ scan = NoScan

NextQuick == QuickCall \/ ScanStep \/ ScanReturn \/ QuickReturn

SpecQuick == InitQuick /\ [][NextQuick]_vars

\* The interpreter runs the function until it returns or fails.
SpecQuickFair == SpecQuick /\ WF_vars(NextQuick)

----------------------------------------------------------------------------
(* Properties of quick_sort step by step, under SpecQuick *)

\* Any two different keys are comparable.
TotalOrder ==
    \A a, b \in OrderKeys : a # b => (<<a, b>> \in order \/ <<b, a>> \in order)

\* The order of the integers
NaturalOrder == order = {p \in OrderKeys \X OrderKeys : p[1] < p[2]}

Returning == scan # NoScan /\ scan' = NoScan

\* The keys at the positions from..to of the container (counted from 0)
KeysAt(from, to) == {container[p + 1] : p \in from..to}

\* C25: when partition3 returns (lt, gt) for the range [begin, last], every
\* element of [begin, lt) is less than every element of [lt, gt], all
\* elements of [lt, gt] are equal to one another, and every element of
\* (gt, last] is greater than them.
C25_PartitionPostcondition ==
    [][(Returning /\ TotalOrder) =>
        /\ \A a \in KeysAt(scan.first, scan.lt - 1) :
               \A b \in KeysAt(scan.lt, scan.gt) : <<a, b>> \in order
        /\ \A a, b \in KeysAt(scan.lt, scan.gt) : a = b
        /\ \A a \in KeysAt(scan.gt + 1, scan.last) :
               \A b \in KeysAt(scan.lt, scan.gt) : <<b, a>> \in order
      ]_vars

\* The statement of C25 for a range whose keys are pairwise distinct
C25_OnDistinctKeys ==
    [][(/\ Returning
        /\ TotalOrder
        /\ \A p, q \in scan.first..scan.last :
               container[p + 1] = container[q + 1] => p = q) =>
        /\ \A a \in KeysAt(scan.first, scan.lt - 1) :
               \A b \in KeysAt(scan.lt, scan.gt) : <<a, b>> \in order
        /\ \A a, b \in KeysAt(scan.lt, scan.gt) : a = b
        /\ \A a \in KeysAt(scan.gt + 1, scan.last) :
               \A b \in KeysAt(scan.lt, scan.gt) : <<b, a>> \in order
      ]_vars

\* The steps of a run under the order of the integers end with the list
\* that quick_sort gives at once.
QuickStepsAgree ==
    (pc = "quick_returned" /\ NaturalOrder) =>
        container = quick_sort(array, Len(array), 0)

Scanning == scan # NoScan /\ scan' # NoScan

\* C29: quick_sort terminates on every finite range for every strict order
\* less: each iteration of the scan loop of partition3 either increments i
\* or decrements gt, each of the two recursive calls is on a range strictly
\* shorter than the range of its caller, and every run returns.
C29_Terminates ==
    /\ [][Scanning =>
            \/ scan'.i = scan.i + 1 /\ scan'.gt = scan.gt
            \/ scan'.i = scan.i /\ scan'.gt = scan.gt - 1]_vars
    /\ [][Returning =>
            /\ scan.lt - scan.first < scan.end - scan.first
            /\ scan.end - (scan.gt + 1) < scan.end - scan.first]_vars
    /\ <>(pc = "quick_returned")

\* A run on a list of the greatest length with different keys, under an
\* order that leaves two keys incomparable, has returned.
C29_Witness ==
    /\ pc = "quick_returned"
    /\ Len(array) = MaxScanLen
    /\ ~TotalOrder
    /\ order # {}
    /\ container # array

----------------------------------------------------------------------------
(* quick_sort and selection_sort_step compared, under SpecSort *)

\* selection_sort_step with end = len for begin = first .. len-2
RECURSIVE SelectionSorted(_, _)
SelectionSorted(arr, first) ==
    IF first >= Len(arr) - 1 THEN arr
    ELSE SelectionSorted(list_selection_sort_step(arr, Len(arr), first),
                         first + 1)

\* C28: for every sequence of pairwise distinct keys quick_sort with end =
\* one past the last index produces the ascending order, and so ends in the
\* same final order as selection_sort_step applied exhaustively.
C28_QuickSortOnDistinctKeys ==
    (pc = "quick_sorted" /\ Distinct(array)) =>
        /\ Permutation(container, array)
        /\ \A p \in 1..Len(container) - 1 : container[p] < container[p + 1]
        /\ container = SelectionSorted(array, 0)

\* quick_sort has run on a sequence of the greatest length whose keys are
\* pairwise distinct and not in ascending order.
C28_Witness ==
    /\ pc = "quick_sorted"
    /\ Distinct(array)
    /\ Len(array) = MaxLen
    /\ container # array

----------------------------------------------------------------------------
(* Blank samples in merge, under SpecMerge *)

\* The word "blank", each letter in lower or upper case, is in the label.
SaysBlank(label) ==
    /\ label # None
    /\ \E k \in 1..(Len(label.s) - 4) :
           /\ SubSeq(label.s, k, k) \in {"b", "B"}
           /\ SubSeq(label.s, k + 1, k + 1) \in {"l", "L"}
           /\ SubSeq(label.s, k + 2, k + 2) \in {"a", "A"}
           /\ SubSeq(label.s, k + 3, k + 3) \in {"n", "N"}
           /\ SubSeq(label.s, k + 4, k + 4) \in {"k", "K"}

\* The (row label, column label, value) triples of the labelled rows of the
\* merged sources that are not blank samples
SampleTriples ==
    UNION { {t \in Triples(merged[k]) : ~SaysBlank(t[1])} :
            k \in 1..Len(merged) }

\* C26: with ignore_blanks true, after any sequence of merges into an
\* initially degenerate destination no destination row label is
\* blank-classified and no value of a blank-classified source row is in the
\* destination; with ignore_blanks false a blank-classified source row is
\* merged like any other labelled row.
C26_BlanksInMerge ==
    /\ [](ignore_blanks =>
            /\ \A label \in RowLabels(destination) : ~SaysBlank(label)
            /\ Triples(destination) \subseteq SampleTriples)
    /\ [][(Merging /\ ~ignore_blanks) =>
            LET source == merged'[Len(merged')]
            IN  \A r \in 2..Len(source) :
                    SaysBlank(source[r][1]) =>
                        /\ source[r][1] \in RowLabels(destination')
                        /\ \A c \in 2..Len(source[r]) :
                               (source[1][c] # None /\ source[r][c] # None) =>
                                   <<source[r][1], source[1][c], source[r][c]>>
                                       \in Triples(destination')
          ]_vars

\* With ignore_blanks true, two sources have been merged, one of them with a
\* value in a blank sample row, and the destination holds data.
C26_Witness ==
    /\ ignore_blanks
    /\ Len(merged) >= 2
    /\ \E k \in 1..Len(merged) : \E t \in Triples(merged[k]) : SaysBlank(t[1])
    /\ Triples(destination) # {}

\* With ignore_blanks false, a blank sample row is in the destination.
C26_BlankRowMerged ==
    /\ ~ignore_blanks
    /\ \E label \in RowLabels(destination) : SaysBlank(label)

---------------------------------------------------------------------------
(* The effect of a successful clear_found_values, under SpecClear *)

\* The destination cells that the source cells of the set data are compared
\* with
MatchedCells(dest, source, data, trim) ==
    {Matched(dest, source, p, trim) : p \in data}

\* The sheet with the given cells emptied and every other cell as it is
Emptied(sheet, cells) ==
    [r \in 1..max_row(sheet) |-> [c \in 1..max_column(sheet) |->
        IF <<r, c>> \in cells THEN None ELSE Cell(sheet, r, c)]]

\* Every non-empty data cell of the source, whatever its row
AllData(source) == DataIn(source, 2..max_row(source))

\* The call repeats the source of a call that has returned
ClearingAgain ==
    /\ Clearing
    /\ merged # <<>>
    /\ Cleared = merged[Len(merged)]

\* C27: a successful clear_found_values empties exactly the destination
\* cells matched by the non-empty source cells of the rows that it reads
\* (labelled, and not blank-classified when ignore_blanks) and changes
\* nothing else: labels, every other cell and the size of the table stay;
\* a second run with the same source, when such a cell exists, raises a
\* ConsistencyError.
C27_ClearsReadCellsOnce ==
    [][/\ Clearing /\ raised' = "none"
          => destination' =
                 Emptied(destination,
                         MatchedCells(destination, Cleared,
                                      SourceData(Cleared, ignore_blanks),
                                      trim_class_names))
       /\ ClearingAgain /\ SourceData(Cleared, ignore_blanks) # {}
          => raised' \in {NotFound, Differs}
      ]_vars

\* A first run has emptied one cell of a destination of two records by two
\* classes, left another value in place, and the second run has raised.
C27_Witness ==
    /\ Len(merged) = 2
    /\ merged[1] = merged[2]
    /\ SourceData(merged[1], ignore_blanks) # {}
    /\ raised = NotFound
    /\ max_row(destination) = 3
    /\ max_column(destination) = 3
    /\ \E p \in (2..3) \X (2..3) : Cell(destination, p[1], p[2]) = None
    /\ \E p \in (2..3) \X (2..3) : Cell(destination, p[1], p[2]) = Num(100)

\* C27 with every non-empty source cell, the rows that are not read
\* included
C27_EveryCellOnce ==
    [][/\ Clearing /\ raised' = "none"
          /\ (\A p \in AllData(Cleared) :
                  Resolves(destination, Cleared, p, trim_class_names))
          => destination' =
                 Emptied(destination,
                         MatchedCells(destination, Cleared,
                                      AllData(Cleared), trim_class_names))
       /\ ClearingAgain /\ AllData(Cleared) # {}
          => raised' \in {NotFound, Differs}
      ]_vars

\* A source whose values are all in a blank-classified row has been run
\* twice with ignore_blanks, and both runs have returned.
C27_BlankRowTwice ==
    /\ Len(merged) = 2
    /\ merged[1] = merged[2]
    /\ AllData(merged[1]) # {}
    /\ raised = "none"

---------------------------------------------------------------------------
(* The log sheet and the data sheets of the result, under Spec *)

\* The merge stage has been entered: validation has accepted the input
PastValidation ==
    /\ inconsistencies = <<>>
    /\ pc \in {"merge", "sort", "save", "verify", "finalize", "done"}
    /\ pc = "done" => saved # NoFile

\* The number of input files whose sheets have been merged
MergedFiles == IF pc = "merge" THEN fi - 1 ELSE Len(input_files)

\* One log row per sheet of the input files k..last, with the same status
\* in each
RECURSIVE StatusRowsTo(_, _, _)
StatusRowsTo(k, last, status) ==
    IF k > last THEN <<>>
    ELSE [j \in 1..Len(store[input_files[k]]) |->
             << Str(input_files[k]), Str(store[input_files[k]][j].title),
                Str(status) >>]
         \o StatusRowsTo(k + 1, last, status)

\* The value at <<r, c>> of the data sheet is the value that an input sheet
\* of the same title has under the same labels, the class name trimmed or
\* not
FromInput(ws, r, c) ==
    \E j \in 1..Len(InputSheets(1)) :
        /\ InputSheets(1)[j].title = ws.title
        /\ \E t \in Triples(InputSheets(1)[j].sheet) :
               /\ t[1] = Cell(ws.sheet, r, 1)
               /\ t[3] = Cell(ws.sheet, r, c)
               /\ trim_class_name(t[2]) = trim_class_name(Cell(ws.sheet, 1, c))

\* C30: for any input sheet names, the title of the log sheet included,
\* process keeps the log sheet for the log: from the merge stage on the
\* first sheet of the result is the log sheet, with its five header rows
\* and one status row per merged input sheet and nothing else, and every
\* value of every other sheet is a value merged from an input sheet of
\* that title, never a log status.
C30_LogSheetReserved ==
    PastValidation =>
        /\ result[1].title = LogTitle
        /\ SubSeq(result[1].sheet, 1, 5) = NewResult[1].sheet
        /\ LogRows(result) =
               StatusRowsTo(1, MergedFiles,
                            IF raised = "Success" THEN "OK"
                            ELSE "Waiting for validation!")
        /\ \A k \in 2..Len(result) :
               /\ result[k].title # LogTitle
               /\ \A r \in 2..max_row(result[k].sheet) :
                      \A c \in 2..max_column(result[k].sheet) :
                          \/ Cell(result[k].sheet, r, c) = None
                          \/ FromInput(result[k], r, c)

\* The statement of C30 for runs in which no input sheet has the title of
\* the log sheet
C30_OnOwnDestinations == OwnDestinations => C30_LogSheetReserved

\* A run over two files of numbers, in which no input sheet has the title
\* of the log sheet, has succeeded.
C30_OwnDestinationsRun ==
    /\ OwnDestinations
    /\ raised = "Success"
    /\ Len(input_files) = 2
    /\ \E k \in 2..Len(result) : Triples(result[k].sheet) # {}

===========================================================================
